---- MODULE Spec2Model ----
(***************************************************************************)
(* Position ledgers of the Trading-System repository.                      *)
(*                                                                         *)
(* Four consumer clients keep a simulated ledger:                          *)
(*   "triple" scripts/triple_factor_day_trader.py  PortfolioManager        *)
(*   "three"  scripts/three_strategy_client.py     PortfolioManager        *)
(*            (also driven row by row by scripts/backtest.py: "backtest")  *)
(*   "four"   scripts/four_factor_day_trader.py    PortfolioManager        *)
(*   "naive"  scripts/naive_client.py              module globals          *)
(*                                                                         *)
(* The live trader (main_day_trader.py) sizes its orders with              *)
(* src/alpaca_utils/risk_manager.py RiskManager, checked on its own under  *)
(* RiskSpec; there money is an integer number of mills (0.001 dollar).     *)
(*                                                                         *)
(* In the ledgers money is an integer number of cents.  Every input price  *)
(* is a whole number of dollars, so the 2 % / 3 % stop and target and the  *)
(* 1.0 / 1.5 dollar offsets are exact in cents; Python's binary floating   *)
(* point rounding is not modelled.  The strategy's indicator arithmetic is *)
(* not modelled here: the signal that generate_signal returns for a bar is *)
(* an input carried by the bar ("BUY", "SELL" or "None").                  *)
(***************************************************************************)
EXTENDS Integers, Sequences, FiniteSets, TLC

VARIABLES
    ledger,        \* which client this session runs
    pc,            \* position in the body of the client's receive loop
    ticks,         \* number of messages received so far
    msg,           \* the message being processed: [timestamp, data]
    idx,           \* index of the next security of msg.data in the signal loop
    cash,          \* self.cash / cash_balance (cents)
    positions,     \* self.positions / portfolio: insertion-ordered dict
    realized_pnl,  \* self.realized_pnl (cents)
    trade_log,     \* self.trade_log / rows of trade_execution_log.csv
    history,       \* self.history / rows of the session report
    prev,          \* history variable: the ledger before the last step
    step,          \* history variable: the operation the last step ran
    exits,         \* history variable: full closes of the current tick
    ref,           \* history variable: the high-water-mark ratchet of the
                   \* specification, run beside the triple-factor ledger
    risk,          \* a call of RiskManager.calculate_trade_parameters: its
                   \* arguments and, once it has run, its outcome
    strategy,      \* alpaca_utils TradingStrategy: data_buffers and the last call
    feed,          \* tcp_server ThreadedServer: data files, connections, workers
    client,        \* a consumer's receive loop: socket, buffer, parsed messages
    trader         \* main_day_trader.run_day_trader: the clock, the loop's
                   \* position, the gateway's positions, the orders submitted

vars == <<ledger, pc, ticks, msg, idx, cash, positions, realized_pnl,
          trade_log, history, prev, step, exits, ref, risk, strategy, feed,
          client, trader>>

----------------------------------------------------------------------------
(* Bounds and program constants *)

\* number of messages a session receives
MaxTicks == 3

\* self.cash = 100_000.0, starting_cash = 100000 (dollars)
InitialCash == 100000
\* min(self.cash * 0.1, 1000): the dollar cap of one investment
MaxInvestment == 1000
\* self.stop_loss_pct = 0.02, in percent
StopLossPct == 2
\* self.take_profit_pct = 0.03, in percent
TakeProfitPct == 3
\* self.trailing_stop_buffer = 0.02, in percent
TrailingStopBufferPct == 2
\* is_end_of_day: dt.hour >= 16
EodHour == 16

Min(a, b) == IF a <= b THEN a ELSE b
Max(a, b) == IF a >= b THEN a ELSE b

\* Python int(n / d) for d > 0: truncation toward zero
IntDiv(n, d) == IF n >= 0 THEN n \div d ELSE -((-n) \div d)

----------------------------------------------------------------------------
(* Python dict with insertion order: a sequence of records keyed by symbol *)

Keys(ps) == {ps[k].symbol : k \in DOMAIN ps}

KeyList(ps) == [k \in DOMAIN ps |-> ps[k].symbol]

Get(ps, sym) == ps[CHOOSE k \in DOMAIN ps : ps[k].symbol = sym]

Put(ps, rec) ==
    IF rec.symbol \in Keys(ps)
    THEN [k \in DOMAIN ps |-> IF ps[k].symbol = rec.symbol THEN rec ELSE ps[k]]
    ELSE Append(ps, rec)

\* variant: a fully sold position stays in the dict with quantity 0
Del_Keep(ps, sym) ==
    [k \in DOMAIN ps |-> IF ps[k].symbol = sym THEN [ps[k] EXCEPT !.quantity = 0] ELSE ps[k]]

\* del self.positions[symbol]
Del(ps, sym) == SelectSeq(ps, LAMBDA p : p.symbol # sym)

\* {d['symbol']: float(d['close']) for d in market_data}: the last bar of a
\* symbol wins
Prices(data) ==
    [s \in {data[k].symbol : k \in DOMAIN data} |->
        data[CHOOSE k \in DOMAIN data :
                /\ data[k].symbol = s
                /\ \A j \in DOMAIN data : data[j].symbol = s => j <= k].close]

\* the ledger as one value, so that the methods compose
Ledger(c, ps, r, tl) == [cash |-> c, positions |-> ps, realized_pnl |-> r, trade_log |-> tl]

Current == Ledger(cash, positions, realized_pnl, trade_log)

Stamp(ts, tag) == [time |-> ts, tag |-> tag]

----------------------------------------------------------------------------
(* scripts/triple_factor_day_trader.py: PortfolioManager *)

\* n / d for a float division whose result is a whole number of cents; the
\* inputs are chosen so that it always is (CHOOSE is undefined otherwise)
ExactDiv(n, d) == CHOOSE q \in {n \div d} : q * d = n

\* price * (1 - pct) and price * (1 + pct), exact for whole-dollar prices
Pct(price, pct) == ExactDiv(price * pct, 100)

\* max_investment = min(self.cash * 0.1, 1000); quantity = int(max_investment / price)
Quantity(c, price) == Min(IntDiv(c, 10 * price), IntDiv(MaxInvestment * 100, price))

TripleBuy(L, sym, price, quantity, ts) ==
    LET cost == price * quantity
        ps   == L.positions
        rec  == IF sym \in Keys(ps)
                THEN LET cur     == Get(ps, sym)
                         new_qty == cur.quantity + quantity
                         new_avg == ExactDiv(cur.avg_price * cur.quantity + cost, new_qty)
                     IN  [symbol |-> sym, quantity |-> new_qty, avg_price |-> new_avg,
                          stop_price |-> new_avg - Pct(new_avg, StopLossPct),
                          take_profit_price |-> new_avg + Pct(new_avg, TakeProfitPct)]
                ELSE [symbol |-> sym, quantity |-> quantity, avg_price |-> price,
                      stop_price |-> price - Pct(price, StopLossPct),
                      take_profit_price |-> price + Pct(price, TakeProfitPct)]
    IN  [L EXCEPT !.cash = @ - cost,
                  !.positions = Put(ps, rec),
                  !.trade_log = Append(@, [timestamp |-> ts, symbol |-> sym, action |-> "BUY",
                                           price |-> price, quantity |-> quantity])]

\* variant: the gain of one share booked, whatever the quantity
RealizedTradePnl_PerShare(price, avg_price, quantity) == price - avg_price

\* variant: the proceeds of the sale booked as its profit
RealizedTradePnl_Proceeds(price, avg_price, quantity) == price * quantity

\* realized_trade_pnl = (price - avg_price) * quantity
RealizedTradePnl(price, avg_price, quantity) == (price - avg_price) * quantity

TripleSell(L, sym, price, quantity, ts) ==
    IF sym \notin Keys(L.positions) \/ Get(L.positions, sym).quantity < quantity
    THEN L
    ELSE LET cur == Get(L.positions, sym)
             realized_trade_pnl == RealizedTradePnl(price, cur.avg_price, quantity)
             left == cur.quantity - quantity
         IN  [L EXCEPT !.realized_pnl = @ + realized_trade_pnl,
                       !.cash = @ + price * quantity,
                       !.positions = IF left <= 0 THEN Del(@, sym)
                                     ELSE Put(@, [cur EXCEPT !.quantity = left]),
                       !.trade_log = Append(@, [timestamp |-> ts, symbol |-> sym,
                                                action |-> "SELL", price |-> price,
                                                quantity |-> quantity,
                                                realized_pnl |-> realized_trade_pnl])]

TripleExecuteTrade(L, sym, signal, price, ts) ==
    LET ps == L.positions
        quantity == Quantity(L.cash, price)
    IN  IF signal = "BUY" /\ sym \in Keys(ps) /\ Get(ps, sym).quantity > 0 THEN L
        ELSE IF quantity < 1 THEN L
        ELSE IF signal = "BUY"
             THEN IF L.cash >= price * quantity
                  THEN TripleBuy(L, sym, price, quantity, ts) ELSE L
        ELSE IF signal = "SELL"
             THEN IF sym \in Keys(ps) /\ Get(ps, sym).quantity > 0
                  THEN LET sell_qty == Min(quantity, Get(ps, sym).quantity)
                       IN  IF sell_qty > 0 THEN TripleSell(L, sym, price, sell_qty, ts) ELSE L
                  ELSE L
        ELSE L

\* variant: the stop follows the price down as well as up
Ratchet_Follow(pos, current_price) ==
    IF current_price > pos.avg_price
    THEN [pos EXCEPT !.stop_price = current_price - Pct(current_price, TrailingStopBufferPct)]
    ELSE pos

\* variant: the stop trails the position's best price above entry only once
\* the price has gained more than the buffer
Ratchet_Late(pos, current_price) ==
    IF current_price - Pct(current_price, TrailingStopBufferPct) > pos.avg_price
    THEN LET new_stop == current_price - Pct(current_price, TrailingStopBufferPct)
         IN  IF new_stop > pos.stop_price THEN [pos EXCEPT !.stop_price = new_stop] ELSE pos
    ELSE pos

\* the trailing-stop update of one position at the tick's price
Ratchet(pos, current_price) ==
    IF current_price > pos.avg_price
    THEN LET new_stop == current_price - Pct(current_price, TrailingStopBufferPct)
         IN  IF new_stop > pos.stop_price THEN [pos EXCEPT !.stop_price = new_stop] ELSE pos
    ELSE pos

\* variant: a price exactly at the stop does not trigger it
ExitReason_StrictStop(pos, current_price) ==
    IF current_price < pos.stop_price THEN "StopLoss"
    ELSE IF current_price >= pos.take_profit_price THEN "TakeProfit"
    ELSE "None"

\* variant: the take-profit test is missing
ExitReason_StopOnly(pos, current_price) ==
    IF current_price <= pos.stop_price THEN "StopLoss" ELSE "None"

\* the reason, if any, for which the exit check sells a (ratcheted) position
ExitReason(pos, current_price) ==
    IF current_price <= pos.stop_price THEN "StopLoss"
    ELSE IF current_price >= pos.take_profit_price THEN "TakeProfit"
    ELSE "None"

\* first loop of check_stop_loss_take_profit: the positions after the
\* trailing-stop updates
Ratcheted(ps, prices) ==
    [k \in DOMAIN ps |->
        IF ps[k].symbol \in DOMAIN prices THEN Ratchet(ps[k], prices[ps[k].symbol]) ELSE ps[k]]

\* symbols_to_sell, in dict order
SymbolsToSell(ps, prices) ==
    LET hit(p) == p.symbol \in DOMAIN prices /\ ExitReason(p, prices[p.symbol]) # "None"
        sel == SelectSeq(ps, hit)
    IN  [k \in DOMAIN sel |-> [symbol |-> sel[k].symbol, price |-> prices[sel[k].symbol],
                               reason |-> ExitReason(sel[k], prices[sel[k].symbol])]]

RECURSIVE SellEach(_, _, _)
\* for (sym, sell_price, reason) in symbols_to_sell: sell the whole quantity
SellEach(L, todo, ts) ==
    IF todo = <<>> THEN L
    ELSE LET t == Head(todo)
             qty == Get(L.positions, t.symbol).quantity
         IN  SellEach(TripleSell(L, t.symbol, t.price, qty, Stamp(ts, t.reason)), Tail(todo), ts)

CheckStopLossTakeProfit(L, data, ts) ==
    LET prices == Prices(data)
        ps == Ratcheted(L.positions, prices)
    IN  SellEach([L EXCEPT !.positions = ps], SymbolsToSell(ps, prices), ts)

\* variant: the scheduled exits sell at the position's stop price
SellPrice_Stop(pos) == pos.stop_price

\* sell_price = self.positions[sym]['avg_price'] of partial_close, and the
\* avg_price close_all_positions passes to _execute_sell
SellPrice(pos) == pos.avg_price

RECURSIVE PartialEach(_, _, _)
\* partial_close(0.5, timestamp): int(current_qty * fraction) shares of each
\* position, sold at the position's avg_price
PartialEach(L, syms, ts) ==
    IF syms = <<>> THEN L
    ELSE LET sym == Head(syms)
             cur == Get(L.positions, sym)
             qty_to_sell == IntDiv(cur.quantity, 2)
         IN  IF cur.quantity > 0 /\ qty_to_sell >= 1
             THEN PartialEach(TripleSell(L, sym, SellPrice(cur), qty_to_sell,
                                         Stamp(ts, "PartialClose")), Tail(syms), ts)
             ELSE PartialEach(L, Tail(syms), ts)

PartialClose(L, ts) == PartialEach(L, KeyList(L.positions), ts)

RECURSIVE CloseEach(_, _, _)
\* close_all_positions: the whole quantity of each position at its avg_price
CloseEach(L, syms, ts) ==
    IF syms = <<>> THEN L
    ELSE LET sym == Head(syms)
             cur == Get(L.positions, sym)
         IN  CloseEach(TripleSell(L, sym, SellPrice(cur), cur.quantity,
                                  Stamp(ts, "EOD Liquidation")), Tail(syms), ts)

\* variant: the liquidation sells the partial-close fraction of each position
CloseAllPositions_Fraction(L, ts) == PartialEach(L, KeyList(L.positions), ts)

CloseAllPositions(L, ts) == CloseEach(L, KeyList(L.positions), ts)

RECURSIVE SumSeq(_)
SumSeq(s) == IF s = <<>> THEN 0 ELSE Head(s) + SumSeq(Tail(s))

Last(q) == q[Len(q)]

\* update_valuation: a position without a price in the tick is valued at its
\* avg_price (prices.get(sym, avg_price))
TripleValuation(L, ts, data) ==
    LET prices == Prices(data)
        ps == L.positions
        cur(p) == IF p.symbol \in DOMAIN prices THEN prices[p.symbol] ELSE p.avg_price
    IN  [timestamp |-> ts,
         total_value |-> L.cash + SumSeq([k \in DOMAIN ps |-> cur(ps[k]) * ps[k].quantity]),
         realized_pnl |-> L.realized_pnl,
         unrealized_pnl |-> SumSeq([k \in DOMAIN ps |->
                                      (cur(ps[k]) - ps[k].avg_price) * ps[k].quantity]),
         positions |-> Len(ps)]

\* variant: the cut-off hour itself is not yet the end of the day
IsEndOfDay_After(ts) == ts.hour > EodHour

\* is_end_of_day: hour >= 16
IsEndOfDay(ts) == ts.hour >= EodHour

\* variant: only the 15:30 partial close is scheduled
IsPartialCloseTime_Once(ts) == ts.hour = 15 /\ ts.minute = 30

\* t == time(15, 30) or t == time(15, 45)
IsPartialCloseTime(ts) == ts.hour = 15 /\ ts.minute \in {30, 45}

----------------------------------------------------------------------------
(* scripts/three_strategy_client.py: PortfolioManager (used by backtest.py) *)

ThreeBuy(L, sym, price, quantity, ts) ==
    LET cost == price * quantity
        ps   == L.positions
        rec  == IF sym \in Keys(ps)
                THEN LET cur     == Get(ps, sym)
                         new_qty == cur.quantity + quantity
                     IN  [symbol |-> sym, quantity |-> new_qty,
                          avg_price |-> ExactDiv(cur.avg_price * cur.quantity + cost, new_qty)]
                ELSE [symbol |-> sym, quantity |-> quantity, avg_price |-> price]
    IN  [L EXCEPT !.cash = @ - cost,
                  !.positions = Put(ps, rec),
                  !.trade_log = Append(@, [timestamp |-> ts, symbol |-> sym, action |-> "BUY",
                                           price |-> price, quantity |-> quantity])]

ThreeSell(L, sym, price, quantity, ts) ==
    LET cur  == Get(L.positions, sym)
        left == cur.quantity - quantity
    IN  [L EXCEPT !.cash = @ + price * quantity,
                  !.positions = IF left <= 0 THEN Del(@, sym)
                                ELSE Put(@, [cur EXCEPT !.quantity = left]),
                  !.trade_log = Append(@, [timestamp |-> ts, symbol |-> sym, action |-> "SELL",
                                           price |-> price, quantity |-> quantity])]

ThreeExecuteTrade(L, sym, signal, price, ts) ==
    LET ps == L.positions
        quantity == Quantity(L.cash, price)
    IN  IF quantity < 1 THEN L
        ELSE IF signal = "BUY" /\ L.cash >= price * quantity
             THEN ThreeBuy(L, sym, price, quantity, ts)
        ELSE IF signal = "SELL" /\ sym \in Keys(ps)
             THEN LET holdings == Get(ps, sym).quantity
                  IN  IF holdings > 0
                      THEN ThreeSell(L, sym, price, Min(quantity, holdings), ts)
                      ELSE L
        ELSE L

\* update_valuation: only the positions whose symbol has a price in
\* market_data enter the totals (if sym in prices)
ThreeValuation(L, ts, data) ==
    LET prices == Prices(data)
        ps == SelectSeq(L.positions, LAMBDA p : p.symbol \in DOMAIN prices)
    IN  [timestamp |-> ts,
         total_value |-> L.cash + SumSeq([k \in DOMAIN ps |->
                                            prices[ps[k].symbol] * ps[k].quantity]),
         unrealized |-> SumSeq([k \in DOMAIN ps |->
                                  (prices[ps[k].symbol] - ps[k].avg_price) * ps[k].quantity]),
         positions |-> Len(L.positions)]

----------------------------------------------------------------------------
(* scripts/four_factor_day_trader.py: PortfolioManager *)

\* PortfolioManager(risk_amount=1.0), in dollars
RiskAmount == 1

\* TradingStrategy.is_stock: not symbol.startswith('^')
IsStock(sym) == sym \notin {"^GSPC"}

\* profit_ratio * self.risk_amount in cents: 1.5 for a stock, 1.0 otherwise
TargetOffset(sym) == IF IsStock(sym) THEN 150 * RiskAmount ELSE 100 * RiskAmount

\* open_position with quantity = 1
FourOpen(L, sym, signal, current_price, ts) ==
    IF sym \in Keys(L.positions) THEN L
    ELSE IF signal = "BUY" /\ L.cash < current_price THEN L
    ELSE LET long == signal = "BUY"
             rec == [symbol |-> sym, entry_price |-> current_price, position_type |-> signal,
                     stop_loss |-> IF long THEN current_price - 100 * RiskAmount
                                   ELSE current_price + 100 * RiskAmount,
                     target |-> IF long THEN current_price + TargetOffset(sym)
                                ELSE current_price - TargetOffset(sym),
                     quantity |-> 1]
         IN  [L EXCEPT !.cash = IF long THEN @ - current_price ELSE @ + current_price,
                       !.positions = Put(@, rec),
                       !.trade_log = Append(@, [timestamp |-> ts, symbol |-> sym,
                                                action |-> IF long THEN "OPEN BUY" ELSE "OPEN SELL",
                                                price |-> current_price, quantity |-> 1])]

\* the exit condition of update_positions
FourExit(pos, current_price) ==
    IF pos.position_type = "BUY"
    THEN current_price >= pos.target \/ current_price <= pos.stop_loss
    ELSE current_price <= pos.target \/ current_price >= pos.stop_loss

FourUpdate(L, sym, current_price, ts) ==
    IF sym \notin Keys(L.positions) THEN L
    ELSE LET pos == Get(L.positions, sym)
             long == pos.position_type = "BUY"
             pnl == IF long THEN (current_price - pos.entry_price) * pos.quantity
                    ELSE (pos.entry_price - current_price) * pos.quantity
         IN  IF ~FourExit(pos, current_price) THEN L
             ELSE [L EXCEPT !.cash = IF long THEN @ + current_price * pos.quantity
                                     ELSE @ - current_price * pos.quantity,
                            !.realized_pnl = @ + pnl,
                            !.positions = Del(@, sym),
                            !.trade_log = Append(@, [timestamp |-> ts, symbol |-> sym,
                                                     action |-> IF long THEN "CLOSE BUY"
                                                                ELSE "CLOSE SELL",
                                                     price |-> current_price,
                                                     quantity |-> pos.quantity,
                                                     realized_pnl |-> pnl])]

\* update_valuation: the row of the session report
FourValuation(L, ts, data) ==
    LET prices == Prices(data)
        ps == SelectSeq(L.positions, LAMBDA p : p.symbol \in DOMAIN prices)
        dir(p) == IF p.position_type = "BUY" THEN 1 ELSE -1
    IN  [timestamp |-> ts,
         total_value |-> L.cash + SumSeq([k \in DOMAIN ps |->
                                            dir(ps[k]) * prices[ps[k].symbol] * ps[k].quantity]),
         unrealized |-> SumSeq([k \in DOMAIN ps |->
                                  dir(ps[k]) * (prices[ps[k].symbol] - ps[k].entry_price)
                                      * ps[k].quantity]),
         positions |-> Len(L.positions)]

----------------------------------------------------------------------------
(* scripts/naive_client.py: the module-level cash_balance and portfolio *)

\* execute_trade(symbol, action, price, quantity=10)
NaiveQuantity == 10

\* variant: a BUY goes through whatever the balance
NaiveCanBuy_Always(c, cost) == TRUE

\* if cash_balance >= cost
NaiveCanBuy(c, cost) == c >= cost

NaiveExecuteTrade(L, sym, action, price) ==
    LET quantity == NaiveQuantity
        ps == L.positions
        cost == price * quantity
    IN  IF action = "BUY"
        THEN IF NaiveCanBuy(L.cash, cost)
             THEN [L EXCEPT !.cash = @ - cost,
                            !.positions =
                                IF sym \in Keys(ps)
                                THEN LET cur == Get(ps, sym)
                                     IN  Put(ps, [cur EXCEPT
                                            !.avg_price = ExactDiv(cur.quantity * cur.avg_price + cost,
                                                                   cur.quantity + quantity),
                                            !.quantity = @ + quantity])
                                ELSE Put(ps, [symbol |-> sym, quantity |-> quantity,
                                              avg_price |-> price, last_close |-> price])]
             ELSE L
        ELSE IF sym \in Keys(ps) /\ Get(ps, sym).quantity >= quantity
             THEN LET cur == Get(ps, sym)
                  IN  [L EXCEPT !.cash = @ + price * quantity,
                                !.positions = IF cur.quantity - quantity = 0 THEN Del(@, sym)
                                              ELSE Put(@, [cur EXCEPT !.quantity = @ - quantity])]
             ELSE L

\* process_market_data: BUY if the close is below the open, SELL otherwise
NaiveAction(sec) == IF sec.close < sec.open THEN "BUY" ELSE "SELL"

\* display_portfolio: every holding with a bar in the tick gets its last_close
DisplayPortfolio(ps, data) ==
    LET prices == Prices(data)
    IN  [k \in DOMAIN ps |->
            IF ps[k].symbol \in DOMAIN prices
            THEN [ps[k] EXCEPT !.last_close = prices[ps[k].symbol]] ELSE ps[k]]

\* save_portfolio_snapshot: the row of the session report
NaiveSnapshot(L, ts) ==
    LET ps == L.positions
    IN  [timestamp |-> ts,
         cash |-> L.cash,
         total_value |-> L.cash + SumSeq([k \in DOMAIN ps |-> ps[k].quantity * ps[k].last_close]),
         unrealized |-> SumSeq([k \in DOMAIN ps |->
                                  (ps[k].last_close - ps[k].avg_price) * ps[k].quantity])]

----------------------------------------------------------------------------
(* Inputs: the messages of the Bar Feed *)

Time(h, m) == [hour |-> h, minute |-> m]

Bar(sym, o, c, sig) == [symbol |-> sym, open |-> o, close |-> c, signal |-> sig]

Signals == {"BUY", "SELL", "None"}

\* closes of the triple-factor session, in cents: they fall on and below the
\* 2 % stop of an entry, between entry and high-water mark, and above the
\* 3 % target
TriplePrices == {9800, 10000, 10100, 10200, 10400}

\* a close of twice the investment cap, for which int(max_investment / price) = 0
TooExpensive == 2 * MaxInvestment * 100

\* timestamps of one trading day around the 15:30 / 15:45 partial closes
\* and the 16:00 cut-off; a session's timestamps increase
TripleTimes == {Time(15, 15), Time(15, 30), Time(15, 45), Time(16, 0), Time(16, 15)}

Before(t, u) == t.hour < u.hour \/ (t.hour = u.hour /\ t.minute < u.minute)

TripleBars ==
    [AAPL |-> {Bar("AAPL", c, c, sig) : c \in TriplePrices, sig \in Signals},
     MSFT |-> {Bar("MSFT", 10000, 10000, "BUY"), Bar("MSFT", 9700, 9700, "None"),
               Bar("MSFT", 60000, 60000, "BUY"),
               Bar("MSFT", TooExpensive, TooExpensive, "BUY"),
               Bar("MSFT", TooExpensive, TooExpensive, "SELL")}]

\* the groups of one timestamp: a bar of one symbol, or bars of two symbols
\* in file order
Groups(as, bs, both) ==
    {<<a>> : a \in as} \cup {<<b>> : b \in bs} \cup {<<a, b>> : a \in both, b \in bs}

TripleGroups ==
    Groups(TripleBars.AAPL, TripleBars.MSFT,
           {Bar("AAPL", 10200, 10200, "BUY"), Bar("AAPL", 9800, 9800, "None")})

\* closes of the three-strategy session: both buy int(1000 / price) = 5
\* shares, and every average of them is a whole number of cents
ThreePrices == {17000, 18200}

ThreeGroups ==
    Groups({Bar("AAPL", c, c, sig) : c \in ThreePrices, sig \in Signals},
           {Bar("MSFT", 17000, 17000, "BUY"), Bar("MSFT", TooExpensive, TooExpensive, "BUY")},
           {Bar("AAPL", 18200, 18200, "BUY"), Bar("AAPL", 17000, 17000, "None")})

\* closes of the four-factor session: around an entry at 100 dollars, at or
\* beyond the 1 dollar stop and the 1.5 dollar target of either side
FourPrices == {9900, 10000, 10200}

\* a close of twice the initial cash: a BUY of one share cannot be paid
Unpayable == 2 * InitialCash * 100

FourGroups ==
    Groups({Bar("AAPL", c, c, sig) : c \in FourPrices, sig \in Signals},
           {Bar("^GSPC", 10000, 10000, "BUY"), Bar("^GSPC", 10100, 10100, "None"),
            Bar("^GSPC", Unpayable, Unpayable, "BUY")},
           {Bar("AAPL", 10000, 10000, "SELL"), Bar("AAPL", 10200, 10200, "None")})

\* bars of the naive session: ten shares at 5000 dollars cost half of the
\* initial cash
NaiveGroups ==
    Groups({Bar("AAPL", 501200, 500000, "None"), Bar("AAPL", 500000, 501200, "None"),
            Bar("AAPL", 502400, 501200, "None")},
           {Bar("MSFT", 501200, 500000, "None"), Bar("MSFT", 500000, 500000, "None")},
           {Bar("AAPL", 501200, 500000, "None")})

\* the timestamp of the sessions whose ledger does not read the clock
Noon == Time(12, 0)

\* backtest.py feeds the three-strategy ledger one row at a time
BacktestRows ==
    {Bar("AAPL", c, c, sig) : c \in ThreePrices, sig \in Signals}
        \cup {Bar("MSFT", 17000, 17000, "BUY"), Bar("MSFT", 18200, 18200, "SELL")}

TripleMessages(last) ==
    {[timestamp |-> t, data |-> g] : t \in {u \in TripleTimes : Before(last, u)},
                                     g \in TripleGroups}

Messages(l, last) ==
    CASE l = "triple" -> TripleMessages(last)
      [] l = "three"  -> {[timestamp |-> Noon, data |-> g] : g \in ThreeGroups}
      [] l = "four"   -> {[timestamp |-> Noon, data |-> g] : g \in FourGroups}
      [] l = "naive"  -> {[timestamp |-> Noon, data |-> g] : g \in NaiveGroups}
      [] l = "backtest" -> {[timestamp |-> Noon, data |-> <<row>>] : row \in BacktestRows}
      [] OTHER        -> {}

NoMsg == [timestamp |-> Time(0, 0), data |-> <<>>]

\* the client sessions make no call of the risk manager
NoCall == [request |-> <<>>, outcome |-> <<>>]

\* a component that takes no part in the behaviours of a specification
Unused == <<>>

----------------------------------------------------------------------------
(* History variables *)

\* the full closes a step made: the symbols it removed, with the tag of the
\* trade-log entry that removed them
Closed(L0, L1) ==
    LET new == SubSeq(L1.trade_log, Len(L0.trade_log) + 1, Len(L1.trade_log))
        gone == SelectSeq(new, LAMBDA e : e.action \in {"SELL", "CLOSE BUY", "CLOSE SELL"}
                                          /\ e.symbol \in Keys(L0.positions)
                                          /\ e.symbol \notin Keys(L1.positions))
    IN  [k \in DOMAIN gone |-> [symbol |-> gone[k].symbol, reason |-> gone[k].timestamp.tag]]

\* the ratchet of the specification: raise highWaterMark when the price
\* exceeds it, and then stopPrice = max(stopPrice, price * (1 - trailingBuffer))
RefRatchet(r, current_price) ==
    IF current_price > r.high_water_mark
    THEN [r EXCEPT !.high_water_mark = current_price,
                   !.stop_price = Max(@, current_price - Pct(current_price, TrailingStopBufferPct))]
    ELSE r

\* the reference positions after a step from ledger L0 to L1: a position
\* that was opened starts with highWaterMark = entry price, one that was
\* removed is dropped
RefAfter(r, L0, L1) ==
    LET kept == SelectSeq(r, LAMBDA x : x.symbol \in Keys(L1.positions)
                                        /\ x.symbol \in Keys(L0.positions))
        opened == SelectSeq(L1.positions, LAMBDA p : p.symbol \notin Keys(L0.positions))
    IN  kept \o [k \in DOMAIN opened |->
                    [symbol |-> opened[k].symbol, high_water_mark |-> opened[k].avg_price,
                     stop_price |-> opened[k].stop_price]]

RefRatcheted(r, prices) ==
    [k \in DOMAIN r |->
        IF r[k].symbol \in DOMAIN prices THEN RefRatchet(r[k], prices[r[k].symbol]) ELSE r[k]]

----------------------------------------------------------------------------
(* The receive loop of start_client, triple_factor_day_trader.py *)

\* assign the ledger variables from a ledger value
Store(L, op) ==
    /\ cash' = L.cash
    /\ positions' = L.positions
    /\ realized_pnl' = L.realized_pnl
    /\ trade_log' = L.trade_log
    /\ prev' = Current
    /\ step' = op
    /\ exits' = exits \o Closed(Current, L)

\* a step that leaves the ledger alone
Keep(op) ==
    /\ prev' = Current
    /\ step' = op
    /\ UNCHANGED <<cash, positions, realized_pnl, trade_log>>

\* s.recv + json.loads: the next message of a client session (the next row
\* of the data frame in backtest.py)
Recv ==
    /\ pc = "recv" /\ ticks < MaxTicks
    /\ \E m \in Messages(ledger, msg.timestamp) : msg' = m
    /\ ticks' = ticks + 1
    /\ idx' = 1
    /\ pc' = "signals"
    /\ exits' = <<>>
    /\ Keep("recv")
    /\ UNCHANGED <<risk, strategy, feed, client, trader, ledger, history, ref>>

\* one iteration of `for sec in securities`: update_buffers, generate_signal
\* and, on a signal, execute_trade at the bar's close
TripleSignal ==
    /\ ledger = "triple" /\ pc = "signals"
    /\ LET sec == msg.data[idx]
           L == IF sec.signal # "None"
                THEN TripleExecuteTrade(Current, sec.symbol, sec.signal, sec.close,
                                        Stamp(msg.timestamp, ""))
                ELSE Current
       IN  /\ Store(L, "signal")
           /\ ref' = RefAfter(ref, Current, L)
    /\ idx' = idx + 1
    /\ pc' = IF idx = Len(msg.data) THEN "stops" ELSE "signals"
    /\ UNCHANGED <<risk, strategy, feed, client, trader, ledger, ticks, msg, history>>

\* portfolio.check_stop_loss_take_profit(securities, timestamp)
TripleStops ==
    /\ ledger = "triple" /\ pc = "stops"
    /\ LET L == CheckStopLossTakeProfit(Current, msg.data, msg.timestamp)
       IN  /\ Store(L, "stops")
           /\ ref' = RefAfter(RefRatcheted(ref, Prices(msg.data)), Current, L)
    /\ pc' = "partial"
    /\ UNCHANGED <<risk, strategy, feed, client, trader, ledger, ticks, msg, idx, history>>

\* the partial closures at 15:30 and 15:45
TriplePartial ==
    /\ ledger = "triple" /\ pc = "partial"
    /\ LET L == IF IsPartialCloseTime(msg.timestamp)
                THEN PartialClose(Current, msg.timestamp) ELSE Current
       IN  /\ Store(L, "partial")
           /\ ref' = RefAfter(ref, Current, L)
    /\ pc' = "eod"
    /\ UNCHANGED <<risk, strategy, feed, client, trader, ledger, ticks, msg, idx, history>>

\* the end-of-day liquidation
TripleEod ==
    /\ ledger = "triple" /\ pc = "eod"
    /\ LET L == IF IsEndOfDay(msg.timestamp)
                THEN CloseAllPositions(Current, msg.timestamp) ELSE Current
       IN  /\ Store(L, "eod")
           /\ ref' = RefAfter(ref, Current, L)
    /\ pc' = "valuation"
    /\ UNCHANGED <<risk, strategy, feed, client, trader, ledger, ticks, msg, idx, history>>

\* portfolio.update_valuation(timestamp, securities), then the next recv
TripleValue ==
    /\ ledger = "triple" /\ pc = "valuation"
    /\ history' = Append(history, TripleValuation(Current, msg.timestamp, msg.data))
    /\ pc' = "recv"
    /\ Keep("valuation")
    /\ UNCHANGED <<risk, strategy, feed, client, trader, ledger, ticks, msg, idx, exits, ref>>

----------------------------------------------------------------------------
(* The receive loops of three_strategy_client.py, four_factor_day_trader.py *)
(* and naive_client.py, and the row loop of backtest.py                     *)

\* one iteration of `for sec in securities` of three_strategy_client.py
ThreeSignal ==
    /\ ledger \in {"three", "backtest"} /\ pc = "signals"
    /\ LET sec == msg.data[idx]
       IN  Store(IF sec.signal # "None"
                 THEN ThreeExecuteTrade(Current, sec.symbol, sec.signal, sec.close,
                                        Stamp(msg.timestamp, ""))
                 ELSE Current, "signal")
    /\ idx' = idx + 1
    /\ pc' = IF idx = Len(msg.data) THEN "valuation" ELSE "signals"
    /\ UNCHANGED <<risk, strategy, feed, client, trader, ledger, ticks, msg, history, ref>>

ThreeValue ==
    /\ ledger \in {"three", "backtest"} /\ pc = "valuation"
    /\ history' = Append(history, ThreeValuation(Current, msg.timestamp, msg.data))
    /\ pc' = "recv"
    /\ Keep("valuation")
    /\ UNCHANGED <<risk, strategy, feed, client, trader, ledger, ticks, msg, idx, exits, ref>>

\* one iteration of `for sec in securities` of four_factor_day_trader.py:
\* open on a signal when the symbol has no position, then update_positions
FourSignal ==
    /\ ledger = "four" /\ pc = "signals"
    /\ LET sec == msg.data[idx]
           ts == Stamp(msg.timestamp, "")
           L == IF sec.signal # "None" /\ sec.symbol \notin Keys(positions)
                THEN FourOpen(Current, sec.symbol, sec.signal, sec.close, ts)
                ELSE Current
       IN  Store(FourUpdate(L, sec.symbol, sec.close, ts), "signal")
    /\ idx' = idx + 1
    /\ pc' = IF idx = Len(msg.data) THEN "valuation" ELSE "signals"
    /\ UNCHANGED <<risk, strategy, feed, client, trader, ledger, ticks, msg, history, ref>>

FourValue ==
    /\ ledger = "four" /\ pc = "valuation"
    /\ history' = Append(history, FourValuation(Current, msg.timestamp, msg.data))
    /\ pc' = "recv"
    /\ Keep("valuation")
    /\ UNCHANGED <<risk, strategy, feed, client, trader, ledger, ticks, msg, idx, exits, ref>>

\* one iteration of the loop of process_market_data
NaiveSignal ==
    /\ ledger = "naive" /\ pc = "signals"
    /\ LET sec == msg.data[idx]
       IN  Store(NaiveExecuteTrade(Current, sec.symbol, NaiveAction(sec), sec.close), "signal")
    /\ idx' = idx + 1
    /\ pc' = IF idx = Len(msg.data) THEN "valuation" ELSE "signals"
    /\ UNCHANGED <<risk, strategy, feed, client, trader, ledger, ticks, msg, history, ref>>

\* display_portfolio(securities_data), then save_portfolio_snapshot(timestamp)
NaiveValue ==
    /\ ledger = "naive" /\ pc = "valuation"
    /\ LET ps == IF positions # <<>> THEN DisplayPortfolio(positions, msg.data) ELSE positions
       IN  /\ Store([Current EXCEPT !.positions = ps], "valuation")
           /\ history' = Append(history, NaiveSnapshot([Current EXCEPT !.positions = ps],
                                                       msg.timestamp))
    /\ pc' = "recv"
    /\ UNCHANGED <<risk, strategy, feed, client, trader, ledger, ticks, msg, idx, ref>>

----------------------------------------------------------------------------

\* a further call of start_client() (main() in backtest.py) in the same
\* process, once the server has closed the connection of the session before:
\* the class-based clients construct a new PortfolioManager; naive_client
\* keeps its ledger in the module globals cash_balance and portfolio, which
\* start_client never assigns, and re-creates only its report file (the
\* "Final Snapshot" row of the session before is written, then truncated)
StartSession ==
    /\ pc = "recv" /\ step \notin {"init", "start"}
    /\ LET L == IF ledger = "naive" THEN Current
                ELSE Ledger(InitialCash * 100, <<>>, 0, <<>>)
       IN  /\ cash' = L.cash
           /\ positions' = L.positions
           /\ realized_pnl' = L.realized_pnl
           /\ trade_log' = L.trade_log
           /\ prev' = L
    /\ step' = "start"
    /\ msg' = NoMsg
    /\ idx' = 1
    /\ history' = <<>>
    /\ exits' = <<>>
    /\ ref' = <<>>
    /\ UNCHANGED <<risk, strategy, feed, client, trader, ledger, pc, ticks>>

Ledgers == {"triple", "three", "backtest", "four", "naive"}

Init ==
    /\ ledger \in Ledgers
    /\ pc = "recv"
    /\ ticks = 0
    /\ msg = NoMsg
    /\ idx = 1
    /\ cash = InitialCash * 100
    /\ positions = <<>>
    /\ realized_pnl = 0
    /\ trade_log = <<>>
    /\ history = <<>>
    /\ prev = Ledger(InitialCash * 100, <<>>, 0, <<>>)
    /\ step = "init"
    /\ exits = <<>>
    /\ ref = <<>>
    /\ risk = NoCall
    /\ strategy = Unused
    /\ feed = Unused
    /\ client = Unused
    /\ trader = Unused

Next ==
    \/ Recv
    \/ TripleSignal
    \/ TripleStops
    \/ TriplePartial
    \/ TripleEod
    \/ TripleValue
    \/ ThreeSignal
    \/ ThreeValue
    \/ FourSignal
    \/ FourValue
    \/ NaiveSignal
    \/ NaiveValue
    \/ StartSession

Spec == Init /\ [][Next]_vars

-----------------------------------------------------------------------------
(* src/alpaca_utils/risk_manager.py: RiskManager.  Money and prices are     *)
(* integers in mills (0.001 dollar).  The value compute_atr returns is an  *)
(* input of the call: <<>> for NaN, <<a>> for an ATR of a mills.  An        *)
(* optional price of the result is <<>> for None, <<p>> for p.  The         *)
(* quotients are those of real arithmetic; binary rounding of the floats   *)
(* is not modelled.                                                        *)

\* risk_per_trade=0.01, in percent
RiskPerTradePct == 1
\* risk_reward_ratio=2
RiskRewardRatio == 2
\* max_position_fraction=0.01, in percent
MaxPositionFractionPct == 1
\* max_open_positions=10
MaxOpenPositions == 10
\* max_notional_ratio=0.50, in percent
MaxNotionalRatioPct == 50
\* max(..., 0.01): the lowest stop of a BUY, in mills
StopFloor == 10
\* quantity_cash_cap of a SELL
NoCashCap == 999999

None == <<>>
Some(x) == <<x>>

\* x // y of two floats holding whole numbers: the floor of the quotient
FloorDiv(n, d) == IF d > 0 THEN n \div d ELSE (-n) \div (-d)

\* the floor of x * pct / 100
PctFloor(x, pct) == (x \div 100) * pct + ((x % 100) * pct) \div 100

\* round(x, 2): the nearest cent; the inputs keep clear of a tie, which the
\* binary representation of the float decides
Round2(x) ==
    LET r == x % 10
    IN  CHOOSE y \in {x - r, x - r + 10} : (r < 5 /\ y = x - r) \/ (r > 5 /\ y = x - r + 10)

\* the rejection of lines 90 and 123
Rejected(atr) == [quantity |-> 0, stop_loss |-> None, take_profit |-> None, atr |-> atr]

\* variant: the notional exposure is not looked at
NotionalExceeded_Never(open_positions, proposed_trade_value, buying_power) == FALSE

\* new_notional > account_info["buying_power"] * self.max_notional_ratio
NotionalExceeded(open_positions, proposed_trade_value, buying_power) ==
    LET total_notional_open == SumSeq(open_positions)
        new_notional == total_notional_open + proposed_trade_value
    IN  new_notional > PctFloor(buying_power, MaxNotionalRatioPct)

\* open_positions is the list of the positions' market_value
ValidatePortfolioRisk(account_info, open_positions, proposed_trade_value) ==
    IF Len(open_positions) >= MaxOpenPositions THEN FALSE
    ELSE IF NotionalExceeded(open_positions, proposed_trade_value, account_info.buying_power)
         THEN FALSE
    ELSE TRUE

\* variant: the stop of a BUY has no floor
StopLoss_NoFloor(side, entry_price, atr, atr_multiplier) ==
    IF side = "BUY" THEN entry_price - atr * atr_multiplier
    ELSE entry_price + atr * atr_multiplier

\* lines 94 and 98
StopLoss(side, entry_price, atr, atr_multiplier) ==
    IF side = "BUY" THEN Max(entry_price - atr * atr_multiplier, StopFloor)
    ELSE entry_price + atr * atr_multiplier

\* lines 95 and 99
RiskPerShare(side, entry_price, stop_loss) ==
    IF side = "BUY" THEN entry_price - stop_loss ELSE stop_loss - entry_price

\* lines 96 and 100
TakeProfit(side, entry_price, risk_per_share) ==
    IF side = "BUY" THEN entry_price + RiskRewardRatio * risk_per_share
    ELSE entry_price - RiskRewardRatio * risk_per_share

\* quantity_risk_based, quantity_notional_cap, quantity_cash_cap
Candidates(side, entry_price, account_info, risk_per_share) ==
    LET available_funds == IF side = "BUY" THEN account_info.cash
                           ELSE account_info.buying_power
    IN  [risk_based   |-> FloorDiv(account_info.equity * RiskPerTradePct, 100 * risk_per_share),
         notional_cap |-> FloorDiv(available_funds * MaxPositionFractionPct, 100 * entry_price),
         cash_cap     |-> IF side = "BUY" THEN FloorDiv(account_info.cash, entry_price)
                          ELSE NoCashCap]

\* calculate_trade_parameters(df, entry_price, account_info, open_positions,
\* side) of a RiskManager built with atr_multiplier; a division by a zero
\* risk_per_share raises (ZeroDivisionError for Python floats, OverflowError
\* from int(inf) for numpy floats: both are ArithmeticError)
CalculateTradeParameters(q) ==
    IF q.atr = None \/ q.atr[1] < 1 THEN Rejected(q.atr)
    ELSE IF q.side \notin {"BUY", "SELL"} THEN [quantity |-> 0]
    ELSE LET atr == q.atr[1]
             stop_loss == StopLoss(q.side, q.entry_price, atr, q.atr_multiplier)
             risk_per_share == RiskPerShare(q.side, q.entry_price, stop_loss)
             take_profit == TakeProfit(q.side, q.entry_price, risk_per_share)
         IN  IF risk_per_share = 0 THEN [error |-> "ArithmeticError"]
             ELSE LET c == Candidates(q.side, q.entry_price, q.account_info, risk_per_share)
                      final_quantity == Min(c.risk_based, Min(c.notional_cap, c.cash_cap))
                      proposed_trade_value == q.entry_price * final_quantity
                  IN  IF ~ValidatePortfolioRisk(q.account_info, q.open_positions,
                                                proposed_trade_value)
                      THEN Rejected(q.atr)
                      ELSE [quantity |-> final_quantity,
                            stop_loss |-> Some(Round2(stop_loss)),
                            take_profit |-> Some(Round2(take_profit)),
                            atr |-> q.atr]

\* account snapshots (equity, cash, buying_power), in mills
Accounts ==
    {[equity |-> 100000000, cash |-> 100000000, buying_power |-> 200000000],
     [equity |-> 100000000, cash |-> 50000,     buying_power |-> 200000000],
     [equity |-> 100000000, cash |-> -1000000,  buying_power |-> 200000000],
     [equity |-> -500000,   cash |-> 100000000, buying_power |-> 200000000],
     [equity |-> 300000000, cash |-> 300000000, buying_power |-> 300000000]}

\* n positions of market value v
Repeat(v, n) == [k \in 1..n |-> v]

\* the market values of the open positions: none, one small, one that
\* leaves no room under the notional limit, one short of the position
\* limit, and the position limit reached
OpenPositions ==
    {<<>>, <<50000000>>, <<99500000>>,
     Repeat(100000, MaxOpenPositions - 1), Repeat(100000, MaxOpenPositions)}

\* the calls: ATR NaN, 0, 0.001, 1.234 and 2 dollars; entry 0.002, 0.01
\* (the stop floor) and 100 dollars
Requests ==
    [atr : {None, Some(0), Some(1), Some(1234), Some(2000)},
     atr_multiplier : {0, 1},
     entry_price : {2, StopFloor, 100000},
     account_info : Accounts,
     open_positions : OpenPositions,
     side : {"BUY", "SELL", "HOLD"}]

\* the caller has the arguments of a call
RiskInit ==
    /\ risk \in {[request |-> Some(q), outcome |-> None] : q \in Requests}
    /\ ledger = "live"
    /\ pc = "recv"
    /\ ticks = 0
    /\ msg = NoMsg
    /\ idx = 1
    /\ cash = InitialCash * 100
    /\ positions = <<>>
    /\ realized_pnl = 0
    /\ trade_log = <<>>
    /\ history = <<>>
    /\ prev = Ledger(InitialCash * 100, <<>>, 0, <<>>)
    /\ step = "init"
    /\ exits = <<>>
    /\ ref = <<>>
    /\ strategy = Unused
    /\ feed = Unused
    /\ client = Unused
    /\ trader = Unused

\* risk_params = risk_manager.calculate_trade_parameters(...)
Size ==
    /\ risk.request # None /\ risk.outcome = None
    /\ risk' = [risk EXCEPT !.outcome = Some(CalculateTradeParameters(risk.request[1]))]
    /\ UNCHANGED <<ledger, pc, ticks, msg, idx, cash, positions, realized_pnl,
                   trade_log, history, prev, step, exits, ref, strategy, feed,
                   client, trader>>

RiskNext == Size

RiskSpec == RiskInit /\ [][RiskNext]_vars

----------------------------------------------------------------------------
(* src/alpaca_utils/trading_strategy.py: TradingStrategy, and the voting   *)
(* tails of the TradingStrategy classes of scripts/three_strategy_client.py *)
(* and scripts/triple_factor_day_trader.py.  The buffer lengths, warm-up   *)
(* thresholds, spans and windows are scaled down; prices and volumes are    *)
(* small integers and every comparison of the indicators is made exactly,  *)
(* in cross-multiplied integer form.  The Bollinger, MACD and volume        *)
(* figures of the two script strategies come from the ta library; there    *)
(* the three votes are inputs of generate_signal.                           *)

\* deque(maxlen=300) of TradingStrategy
MaxLen == 6
\* len(self.data_buffers[symbol]) < 200
WarmUp == 5
\* ewm(span=200, min_periods=200)
LongSpan == 5
\* ewm(span=9, min_periods=9)
ShortSpan == 1
\* ewm(span=26, min_periods=26)
MidSpan == 2
\* rolling(window=20)
Window == 4
\* deque(maxlen=100) of the script strategies
ScriptMaxLen == 3
\* len(buffer) < 20 in their calculate_indicators
MinBars == 2
\* buy_signals >= 3
BuyThreshold == 3
\* buy_count >= 2
VoteThreshold == 2

StratSymbols == {"AAPL", "MSFT"}

\* variant: a full deque refuses the new bar
DequeAppend_KeepOldest(q, x, maxlen) == IF Len(q) >= maxlen THEN q ELSE Append(q, x)

\* deque.append on a deque with maxlen: the oldest item is discarded
DequeAppend(q, x, maxlen) ==
    IF Len(q) >= maxlen THEN Append(Tail(q), x) ELSE Append(q, x)

\* self.data_buffers[symbol].append(data_point); a symbol never seen has
\* the empty deque the defaultdict makes for it
UpdateBuffer(data_buffers, symbol, data_point, maxlen) ==
    [data_buffers EXCEPT ![symbol] = DequeAppend(@, data_point, maxlen)]

RECURSIVE Pow(_, _)
Pow(b, e) == IF e = 0 THEN 1 ELSE b * Pow(b, e - 1)

\* Series.ewm(span, min_periods).mean().iloc[-1] with pandas' default
\* adjust=True: sum(w_i x_i) / sum(w_i), w_i = (1 - alpha)^i counted back
\* from the last row, alpha = 2 / (span + 1); NaN below min_periods.  The
\* value is the fraction num / den, the weights scaled by (span + 1)^(n-1).
Ewm(xs, span, min_periods) ==
    LET n == Len(xs)
        w == [k \in 1..n |-> Pow(span - 1, n - k) * Pow(span + 1, k - 1)]
    IN  IF n < min_periods THEN None
        ELSE Some([num |-> SumSeq([k \in 1..n |-> w[k] * xs[k]]),
                   den |-> SumSeq(w)])

Column(df, name) == [k \in DOMAIN df |-> df[k][name]]

\* the last n rows of a frame
LastRows(xs, n) == [k \in 1..n |-> xs[Len(xs) - n + k]]

Abs(x) == IF x < 0 THEN -x ELSE x

\* indicator1: 0 if the 200 EMA is NaN, 1 if close > 200 EMA, else -1
Indicator1(df) ==
    LET close == Column(df, "close")
        ema == Ewm(close, LongSpan, LongSpan)
    IN  IF ema = None THEN 0
        ELSE IF Last(close) * ema[1].den > ema[1].num THEN 1 ELSE -1

\* indicator2: the VWAP vote, confirmed by volume > 0.8 * rolling mean; any
\* comparison with a NaN (no vwap, fewer rows than the window) is False
Indicator2(df) ==
    LET latest == Last(df)
        busy == /\ Len(df) >= Window
                /\ 5 * Window * latest.volume
                       > 4 * SumSeq(LastRows(Column(df, "volume"), Window))
    IN  IF latest.vwap = None THEN 0
        ELSE IF latest.close > latest.vwap[1] /\ busy THEN 1
        ELSE IF latest.close < latest.vwap[1] /\ busy THEN -1
        ELSE 0

\* indicator3: CCI = (tp - sma) / (0.015 * mad) against +100 and -100, with
\* tp = (high + low + close) / 3; NaN (vote 0) below the window and when
\* the window is flat (0 / 0).  t is 3 * tp, s the window sum of t, and
\* cci > 100 iff 2 * Window * (Window * t - s) > 3 * sum |Window * t_i - s|.
Indicator3(df) ==
    LET t == [k \in DOMAIN df |-> df[k].high + df[k].low + df[k].close]
    IN  IF Len(df) < Window THEN 0
        ELSE LET win == LastRows(t, Window)
                 s == SumSeq(win)
                 dev == SumSeq([k \in 1..Window |-> Abs(Window * win[k] - s)])
                 lead == 2 * Window * (Window * Last(t) - s)
             IN  IF dev = 0 THEN 0
                 ELSE IF lead > 3 * dev THEN 1
                 ELSE IF lead < -(3 * dev) THEN -1
                 ELSE 0

\* indicator4: 0 if the 26 EMA is NaN, 1 if 9 EMA > 26 EMA, else -1
Indicator4(df) ==
    LET close == Column(df, "close")
        short == Ewm(close, ShortSpan, ShortSpan)
        mid == Ewm(close, MidSpan, MidSpan)
    IN  IF mid = None THEN 0
        ELSE IF short # None /\ short[1].num * mid[1].den > mid[1].num * short[1].den
             THEN 1 ELSE -1

CalculateIndicators(df) ==
    <<Indicator1(df), Indicator2(df), Indicator3(df), Indicator4(df)>>

Count(votes, v) == Cardinality({k \in DOMAIN votes : votes[k] = v})

\* variant: the warm-up test is off by one
EnoughData_Late(buffer) == Len(buffer) >= WarmUp - 1

\* not (len(self.data_buffers[symbol]) < 200)
EnoughData(buffer) == Len(buffer) >= WarmUp

\* variant: two agreeing indicators are enough
Consensus_Majority(votes) ==
    IF Count(votes, 1) >= BuyThreshold - 1 THEN "BUY"
    ELSE IF Count(votes, -1) >= BuyThreshold - 1 THEN "SELL"
    ELSE "None"

\* trading_strategy.py lines 72-80
Consensus(votes) ==
    IF Count(votes, 1) >= BuyThreshold THEN "BUY"
    ELSE IF Count(votes, -1) >= BuyThreshold THEN "SELL"
    ELSE "None"

\* the result of generate_trade_signal with the indicators it computed
\* (<<>> when it returned before computing them)
GenerateTradeSignal(buffer) ==
    IF ~EnoughData(buffer) THEN [votes |-> <<>>, signal |-> "None"]
    ELSE LET votes == CalculateIndicators(buffer)
         IN  [votes |-> votes, signal |-> Consensus(votes)]

\* three_strategy_client.py lines 107-115: signals holds one 'BUY' or
\* 'SELL' for each vote that is not neutral
ThreeConsensus(votes) ==
    IF Count(votes, 1) >= VoteThreshold THEN "BUY"
    ELSE IF Count(votes, -1) >= VoteThreshold THEN "SELL"
    ELSE "None"

\* triple_factor_day_trader.py lines 130-135: buy_signal and sell_signal
\* are the flags any bullish and any bearish vote set
TripleConsensus(votes) ==
    LET buy_signal == Count(votes, 1) > 0
        sell_signal == Count(votes, -1) > 0
    IN  IF buy_signal /\ ~sell_signal THEN "BUY"
        ELSE IF sell_signal /\ ~buy_signal THEN "SELL"
        ELSE "None"

\* generate_signal of a script strategy: None below 20 bars, else the vote
ScriptSignal(variant, buffer, votes) ==
    IF Len(buffer) < MinBars THEN [votes |-> <<>>, signal |-> "None"]
    ELSE [votes |-> votes,
          signal |-> IF variant = "three" THEN ThreeConsensus(votes)
                     ELSE TripleConsensus(votes)]

StratBar(close, vwap, volume) ==
    [close |-> close, high |-> close, low |-> close, volume |-> volume, vwap |-> vwap]

\* bars of the busy symbol: a flat, a higher and a lower close around a
\* vwap of 2
StratBars ==
    {StratBar(2, Some(2), 2), StratBar(3, Some(2), 2), StratBar(1, Some(2), 2)}

\* the bar of the quiet symbol: always the same close, below its vwap
QuietBar == StratBar(2, Some(3), 2)

BarsOf(symbol) == IF symbol = "AAPL" THEN StratBars ELSE {QuietBar}

Variants == {"alpaca", "three", "triple"}

Votes3 == [1..3 -> {-1, 0, 1}]

MaxLenOf(variant) == IF variant = "alpaca" THEN MaxLen ELSE ScriptMaxLen

LedgerIdle ==
    /\ ledger = "none"
    /\ pc = "recv"
    /\ ticks = 0
    /\ msg = NoMsg
    /\ idx = 1
    /\ cash = InitialCash * 100
    /\ positions = <<>>
    /\ realized_pnl = 0
    /\ trade_log = <<>>
    /\ history = <<>>
    /\ prev = Ledger(InitialCash * 100, <<>>, 0, <<>>)
    /\ step = "init"
    /\ exits = <<>>
    /\ ref = <<>>
    /\ risk = NoCall

ledgerVars == <<ledger, pc, ticks, msg, idx, cash, positions, realized_pnl,
                trade_log, history, prev, step, exits, ref, risk>>

NoResult == [votes |-> <<>>, signal |-> "None"]

\* TradingStrategy(): no buffer yet.  before is the history variable that
\* holds data_buffers as they were when the last call began.
StrategyInit ==
    /\ strategy \in {[variant |-> v,
                      data_buffers |-> [sym \in StratSymbols |-> <<>>],
                      before |-> [sym \in StratSymbols |-> <<>>],
                      call |-> [op |-> "init", symbol |-> "", data_point |-> None,
                               result |-> NoResult]]
                     : v \in Variants}
    /\ feed = Unused
    /\ client = Unused
    /\ trader = Unused
    /\ LedgerIdle

\* strategy.update_buffer(symbol, bar) / update_buffers(symbol, bar)
Update ==
    \E symbol \in StratSymbols :
      \E bar \in (IF strategy.variant = "alpaca" THEN BarsOf(symbol) ELSE {QuietBar}) :
        /\ strategy' = [strategy EXCEPT
              !.data_buffers = UpdateBuffer(@, symbol, bar, MaxLenOf(strategy.variant)),
              !.before = strategy.data_buffers,
              !.call = [op |-> "update", symbol |-> symbol, data_point |-> Some(bar),
                        result |-> NoResult]]
        /\ UNCHANGED <<ledgerVars, feed, client, trader>>

\* strategy.generate_trade_signal(symbol) of alpaca_utils
Generate ==
    \E symbol \in StratSymbols :
        /\ strategy.variant = "alpaca"
        /\ strategy' = [strategy EXCEPT
              !.before = strategy.data_buffers,
              !.call = [op |-> "generate", symbol |-> symbol, data_point |-> None,
                        result |-> GenerateTradeSignal(strategy.data_buffers[symbol])]]
        /\ UNCHANGED <<ledgerVars, feed, client, trader>>

\* strategy.calculate_indicators(df) on the rows of a buffer
Indicators ==
    \E symbol \in StratSymbols :
        /\ strategy.variant = "alpaca"
        /\ strategy.data_buffers[symbol] # <<>>
        /\ strategy' = [strategy EXCEPT
              !.before = strategy.data_buffers,
              !.call = [op |-> "indicators", symbol |-> symbol, data_point |-> None,
                        result |-> [votes |-> CalculateIndicators(strategy.data_buffers[symbol]),
                                    signal |-> "None"]]]
        /\ UNCHANGED <<ledgerVars, feed, client, trader>>

\* strategy.generate_signal(symbol, current_data) of a script strategy
ScriptGenerate ==
    \E symbol \in StratSymbols, votes \in Votes3 :
        /\ strategy.variant # "alpaca"
        /\ strategy' = [strategy EXCEPT
              !.before = strategy.data_buffers,
              !.call = [op |-> "generate", symbol |-> symbol, data_point |-> None,
                        result |-> ScriptSignal(strategy.variant,
                                                strategy.data_buffers[symbol], votes)]]
        /\ UNCHANGED <<ledgerVars, feed, client, trader>>

StrategyNext == Update \/ Generate \/ Indicators \/ ScriptGenerate

StrategySpec == StrategyInit /\ [][StrategyNext]_vars

----------------------------------------------------------------------------
(* scripts/tcp_server.py: ThreadedServer.  A data file is the sequence of  *)
(* its data rows (csv.DictReader takes the header line for the field        *)
(* names); a timestamp is an integer.  A message on the wire is the text    *)
(* json.dumps makes, cut here into two halves that only make a JSON         *)
(* document together, followed by the newline byte.                         *)

\* consumers that connect while the server runs
MaxConns == 2

ConnIds == 1..MaxConns

Row(timestamp, symbol) == [timestamp |-> timestamp, symbol |-> symbol, close |-> 100 + timestamp]

FileOf(symbol, stamps) == [k \in DOMAIN stamps |-> Row(stamps[k], symbol)]

\* opt.files: one file, two files over the same minutes, and two files
\* where one has a minute the other lacks, in both orders
FileLists ==
    {<<FileOf("AAPL", <<1, 2, 3>>)>>,
     <<FileOf("AAPL", <<1, 2, 3>>), FileOf("MSFT", <<1, 2, 3>>)>>,
     <<FileOf("AAPL", <<1, 2, 4>>), FileOf("MSFT", <<1, 2, 3>>)>>,
     <<FileOf("MSFT", <<1, 2, 3>>), FileOf("AAPL", <<1, 2, 4>>)>>}

\* data_by_timestamp after one more row: a dict in insertion order, as a
\* sequence of [timestamp, data]
AddRow(groups, row) ==
    IF \E k \in DOMAIN groups : groups[k].timestamp = row.timestamp
    THEN [k \in DOMAIN groups |->
             IF groups[k].timestamp = row.timestamp
             THEN [groups[k] EXCEPT !.data = Append(@, row)]
             ELSE groups[k]]
    ELSE Append(groups, [timestamp |-> row.timestamp, data |-> <<row>>])

RECURSIVE AddRows(_, _)
AddRows(groups, rows) ==
    IF rows = <<>> THEN groups ELSE AddRows(AddRow(groups, Head(rows)), Tail(rows))

\* next(reader) after DictReader(csvfile) takes the first data row away
RowsRead(file) == Tail(file)

\* sendCSVfile: the files in the order given, every row read of each
RECURSIVE SendCSVfile(_)
SendCSVfile(files) ==
    IF files = <<>> THEN <<>>
    ELSE AddRows(SendCSVfile(SubSeq(files, 1, Len(files) - 1)),
                 RowsRead(files[Len(files)]))

NoMessage == [timestamp |-> 0, data |-> <<>>]

Newline == [kind |-> "nl", of |-> NoMessage]

\* json.dumps(message): the text of one JSON document
Dumps(message) == <<[kind |-> "head", of |-> message], [kind |-> "tail", of |-> message]>>

\* json.dumps({"timestamp": timestamp, "data": data}) + '\n'
Encode(group) == Dumps(group) \o <<Newline>>

NoConn == [state |-> "none", buffer |-> <<>>, next |-> 1, wire |-> <<>>, failed |-> FALSE]

\* variant: the worker sends the group without the newline
AfterSend_Unterminated(conn) ==
    [conn EXCEPT !.wire = @ \o Dumps(conn.buffer[conn.next]), !.next = @ + 1]

\* client.sendall(message.encode('utf-8')) went through
AfterSend(conn) ==
    [conn EXCEPT !.wire = @ \o Encode(conn.buffer[conn.next]), !.next = @ + 1]

\* variant: a failed send takes the other workers down with it
AfterFailure_All(conns, c, sent) ==
    [d \in DOMAIN conns |->
        IF d = c
        THEN [conns[d] EXCEPT !.wire = @ \o SubSeq(Encode(conns[d].buffer[conns[d].next]), 1, sent),
                              !.state = "closed", !.failed = TRUE]
        ELSE IF conns[d].state = "streaming"
             THEN [conns[d] EXCEPT !.state = "closed", !.failed = TRUE]
             ELSE conns[d]]

\* sendall raised after sent bytes of the message had gone out: the
\* handler closes this client and the worker returns
AfterFailure(conns, c, sent) ==
    [conns EXCEPT ![c] = [@ EXCEPT
        !.wire = @ \o SubSeq(Encode(conns[c].buffer[conns[c].next]), 1, sent),
        !.state = "closed", !.failed = TRUE]]

\* the for loop is exhausted: client.close()
AfterLoop(conn) == [conn EXCEPT !.state = "closed"]

\* ThreadedServer(...): files holds opt.files, reads counts the runs of
\* sendCSVfile; before and last are history variables (the connections and
\* the count before the last step, and the step)
FeedInit ==
    /\ feed \in {[files |-> fs, reads |-> 0,
                  conns |-> [c \in ConnIds |-> NoConn],
                  before |-> [reads |-> 0, conns |-> [c \in ConnIds |-> NoConn]],
                  last |-> [op |-> "init", conn |-> 0]] : fs \in FileLists}
    /\ strategy = Unused
    /\ client = Unused
    /\ trader = Unused
    /\ LedgerIdle

Did(op, c) ==
    [feed EXCEPT !.before = [reads |-> feed.reads, conns |-> feed.conns],
                 !.last = [op |-> op, conn |-> c]]

\* one turn of the loop of listen: accept, then the worker thread is
\* started on self.sendCSVfile()
Accept(c) ==
    /\ feed.conns[c].state = "none"
    /\ feed' = [Did("accept", c) EXCEPT
                  !.reads = @ + 1,
                  !.conns[c] = [NoConn EXCEPT !.state = "streaming",
                                               !.buffer = SendCSVfile(feed.files)]]
    /\ UNCHANGED <<ledgerVars, strategy, client, trader>>

Streaming(c) ==
    /\ feed.conns[c].state = "streaming"
    /\ feed.conns[c].next <= Len(feed.conns[c].buffer)

\* one turn of the loop of sendStreamToClient: the send and the sleep
Send(c) ==
    /\ Streaming(c)
    /\ feed' = [Did("send", c) EXCEPT !.conns[c] = AfterSend(@)]
    /\ UNCHANGED <<ledgerVars, strategy, client, trader>>

\* one turn of the loop in which sendall raises (the consumer is gone, or
\* took nothing for the 500 s of the socket timeout)
SendFail(c) ==
    /\ Streaming(c)
    /\ \E sent \in 0..2 :
          feed' = [Did("fail", c) EXCEPT !.conns = AfterFailure(@, c, sent)]
    /\ UNCHANGED <<ledgerVars, strategy, client, trader>>

\* the end of sendStreamToClient after the last group
Finish(c) ==
    /\ feed.conns[c].state = "streaming"
    /\ feed.conns[c].next > Len(feed.conns[c].buffer)
    /\ feed' = [Did("finish", c) EXCEPT !.conns[c] = AfterLoop(@)]
    /\ UNCHANGED <<ledgerVars, strategy, client, trader>>

Worker(c) == Send(c) \/ SendFail(c) \/ Finish(c)

FeedNext == \E c \in ConnIds : Accept(c) \/ Worker(c)

FeedSpec == FeedInit /\ [][FeedNext]_vars

\* every worker thread is scheduled again and again; a blocked sendall ends
\* by the socket timeout
FeedLiveSpec == FeedSpec /\ \A c \in ConnIds : WF_vars(Worker(c))

\* the worker of consumer 1 may be held up for ever by a slow consumer;
\* the other workers are scheduled
FeedSlowSpec == FeedSpec /\ \A c \in ConnIds \ {1} : WF_vars(Worker(c))

----------------------------------------------------------------------------
(* The receive loops of the consumer clients (start_client of               *)
(* scripts/naive_client.py, triple_factor_day_trader.py,                    *)
(* three_strategy_client.py and four_factor_day_trader.py).  The bytes a    *)
(* peer sends are fixed when the session starts; recv hands them over in    *)
(* pieces of any size.  What the strategy and the ledger do with a bar is   *)
(* left out here: a bar counts as processed when the client's loop over the *)
(* securities got through it.                                               *)

\* messages the peer sends in one session
MaxMessages == 2

ClientBar(symbol, close) == [symbol |-> symbol, close |-> close]

Group(timestamp, bars) == [form |-> "object", timestamp |-> Some(timestamp), data |-> Some(bars)]

\* what a peer can send: two groups as the bar feed makes them, a line that
\* is no JSON, an object without 'timestamp', and groups whose first bar has
\* no 'close' or a 'close' that is no number
ClientMessages ==
    {Group(1, <<ClientBar("AAPL", "number"), ClientBar("MSFT", "number")>>),
     Group(2, <<ClientBar("AAPL", "number"), ClientBar("MSFT", "number")>>),
     [form |-> "junk", timestamp |-> None, data |-> None],
     [form |-> "object", timestamp |-> None,
      data |-> Some(<<ClientBar("AAPL", "number"), ClientBar("MSFT", "number")>>)],
     Group(3, <<ClientBar("AAPL", "missing"), ClientBar("MSFT", "number")>>),
     Group(4, <<ClientBar("AAPL", "text"), ClientBar("MSFT", "number")>>)}

\* the bytes of one message as the peer writes it
Wire(m) == IF m.form = "junk" THEN <<[kind |-> "junk", of |-> m], Newline>> ELSE Encode(m)

RECURSIVE WireAll(_)
WireAll(ms) == IF ms = <<>> THEN <<>> ELSE Wire(Head(ms)) \o WireAll(Tail(ms))

IsSpace(b) == b.kind = "nl"

\* str.strip(), and the white space json.loads allows around a document
RECURSIVE Strip(_)
Strip(text) ==
    IF text = <<>> THEN text
    ELSE IF IsSpace(Head(text)) THEN Strip(Tail(text))
    ELSE IF IsSpace(text[Len(text)]) THEN Strip(SubSeq(text, 1, Len(text) - 1))
    ELSE text

\* json.loads(text): <<the document>>, or <<>> for a JSONDecodeError
JsonLoads(text) ==
    LET t == Strip(text)
    IN  IF Len(t) = 2 /\ t[1].kind = "head" /\ t[2].kind = "tail" /\ t[1].of = t[2].of
        THEN Some(t[1].of) ELSE None

\* index of the first newline of a buffer, 0 if it has none
FirstNewline(buffer) ==
    IF \E k \in DOMAIN buffer : IsSpace(buffer[k])
    THEN CHOOSE k \in DOMAIN buffer :
            IsSpace(buffer[k]) /\ \A j \in 1..(k - 1) : ~IsSpace(buffer[j])
    ELSE 0

SymbolsOf(bars) == [k \in DOMAIN bars |-> bars[k].symbol]

\* index of the first bar whose close float() or the key lookup rejects
FirstBad(bars) ==
    IF \E k \in DOMAIN bars : bars[k].close # "number"
    THEN CHOOSE k \in DOMAIN bars :
            bars[k].close # "number" /\ \A j \in 1..(k - 1) : bars[j].close = "number"
    ELSE 0

Outcome(message, processed, result) ==
    [message |-> message, processed |-> processed, result |-> result]

\* naive_client lines 51-73 for a parsed message: "skipped" by the format
\* test, "raised" by the print loop over all securities (KeyError) or by
\* process_market_data (ValueError), else "done"
NaiveProcess(message) ==
    IF message.timestamp = None \/ message.data = None
    THEN Outcome(message, <<>>, "skipped")
    ELSE LET bars == message.data[1]
             bad == FirstBad(bars)
         IN  IF \E k \in DOMAIN bars : bars[k].close = "missing"
             THEN Outcome(message, <<>>, "raised")
             ELSE IF bad # 0
             THEN Outcome(message, SymbolsOf(SubSeq(bars, 1, bad - 1)), "raised")
             ELSE Outcome(message, SymbolsOf(bars), "done")

\* the body of the try of a script client for a parsed message:
\* message['timestamp'] and message['data'] raise KeyError when missing;
\* a bar that cannot be read raises in the loop (four_factor always,
\* the others once the symbol has 20 bars: warm) or after the loop, in the
\* price table of check_stop_loss_take_profit / update_valuation
ScriptProcess(kind, message, warm) ==
    IF message.timestamp = None \/ message.data = None
    THEN Outcome(message, <<>>, "raised")
    ELSE LET bars == message.data[1]
             bad == FirstBad(bars)
         IN  IF bad = 0 THEN Outcome(message, SymbolsOf(bars), "done")
             ELSE IF kind = "four" \/ warm
             THEN Outcome(message, SymbolsOf(SubSeq(bars, 1, bad - 1)), "raised")
             ELSE Outcome(message, SymbolsOf(bars), "raised")

\* a valuation row is appended to the report file (save_portfolio_snapshot
\* of naive_client, the csv.writer row of the script clients); the row is
\* recorded by the number of messages the client had handled when it wrote it
Snapshot(c) == [c EXCEPT !.snapshots = Append(@, Len(c.handled))]

\* the loop is left with the given state: naive_client's finally block
\* writes the "Final Snapshot" row, the script clients only print a line
EndSession(c, state) ==
    IF c.kind = "naive" THEN Snapshot([c EXCEPT !.state = state])
    ELSE [c EXCEPT !.state = state]

\* naive_client lines 45-76: while "\n" in buffer, split off one line and
\* handle it; an exception other than JSONDecodeError leaves both loops
RECURSIVE Drain(_)
Drain(c) ==
    LET nl == FirstNewline(c.buffer)
    IN  IF nl = 0 \/ c.state # "running" THEN c
        ELSE LET line == SubSeq(c.buffer, 1, nl - 1)
                 rest == SubSeq(c.buffer, nl + 1, Len(c.buffer))
                 parsed == JsonLoads(line)
             IN  IF parsed = None
                 THEN Drain([c EXCEPT !.buffer = rest, !.skipped = @ + 1])
                 ELSE LET out == NaiveProcess(parsed[1])
                          taken == [c EXCEPT !.buffer = rest, !.handled = Append(@, out)]
                      IN  IF out.result = "raised" THEN EndSession(taken, "aborted")
                          ELSE IF out.result = "done" THEN Drain(Snapshot(taken))
                          ELSE Drain(taken)

ClientKinds == {"naive", "triple", "three", "four"}

Sessions == [1..MaxMessages -> ClientMessages]

\* the socket is connected; sent is what the peer writes during the session
ClientInit ==
    /\ client \in {[kind |-> k, sent |-> ms, pos |-> 0, buffer |-> <<>>,
                    handled |-> <<>>, skipped |-> 0, snapshots |-> <<>>,
                    state |-> "running"]
                   : k \in ClientKinds, ms \in Sessions}
    /\ strategy = Unused
    /\ feed = Unused
    /\ trader = Unused
    /\ LedgerIdle

Unread == Len(WireAll(client.sent)) - client.pos

Chunk(n) == SubSeq(WireAll(client.sent), client.pos + 1, client.pos + n)

\* one turn of the loop of naive_client.start_client: recv returned n bytes
NaiveReceive ==
    /\ client.kind = "naive" /\ client.state = "running"
    /\ \E n \in 1..Unread :
          client' = Drain([client EXCEPT !.pos = @ + n, !.buffer = @ \o Chunk(n)])
    /\ UNCHANGED <<ledgerVars, strategy, feed, trader>>

\* one turn of the loop of a script client: recv returned n bytes, which
\* are parsed as one document
ScriptReceive ==
    /\ client.kind # "naive" /\ client.state = "running"
    /\ \E n \in 1..Unread, warm \in BOOLEAN :
          LET parsed == JsonLoads(Chunk(n))
          IN  IF parsed = None
              THEN client' = [client EXCEPT !.pos = @ + n, !.skipped = @ + 1]
              ELSE LET out == ScriptProcess(client.kind, parsed[1], warm)
                       taken == [client EXCEPT !.pos = @ + n, !.handled = Append(@, out)]
                   IN  client' = IF out.result = "raised" THEN EndSession(taken, "aborted")
                                 ELSE Snapshot(taken)
    /\ UNCHANGED <<ledgerVars, strategy, feed, trader>>

\* recv returned b"": the peer has closed and everything was read
ReceiveEof ==
    /\ client.state = "running" /\ Unread = 0
    /\ client' = EndSession(client, "ended")
    /\ UNCHANGED <<ledgerVars, strategy, feed, trader>>

\* recv raised an OSError (the connection was reset): naive_client catches
\* it outside the loop, the script clients catch only JSONDecodeError
ReceiveError ==
    /\ client.state = "running"
    /\ client' = EndSession(client, "dropped")
    /\ UNCHANGED <<ledgerVars, strategy, feed, trader>>

ClientNext == NaiveReceive \/ ScriptReceive \/ ReceiveEof \/ ReceiveError

ClientSpec == ClientInit /\ [][ClientNext]_vars

----------------------------------------------------------------------------
(* src/main_day_trader.py: run_day_trader, with the Execution Gateway of    *)
(* src/alpaca_utils/account_manager.py and trade_manager.py.  Time is an    *)
(* integer number of minutes; the market opens at minute 0 of each day of   *)
(* DayLen minutes and closes CloseAt minutes later.  A bar is known by its  *)
(* timestamp, a multiple of BarMinutes.  The signal of the strategy, the    *)
(* ATR and the quantity of the risk sizer, the number of bars a fetch       *)
(* returns, the time a symbol takes and the success of each gateway call    *)
(* are inputs of the step that uses them.                                   *)

\* minutes from one market open to the next
DayLen == 15
\* minutes the market stays open
CloseAt == 12
\* days the trader is followed
MaxDays == 2
\* minutes the work on one symbol takes at most
MaxDelay == 1
\* bars one fetch returns at most
FetchMax == 2

\* int(time_until_close / 60) <= 4
CloseCutoff == 4
\* min(time_until_close, 300) seconds
SleepMinutes == 5
\* TimeFrame(5, TimeFrameUnit.Minute)
BarMinutes == 5

\* market_data_manager.stock_tickers + market_data_manager.etfs
TraderSymbols == <<"AAPL", "SPY">>

Horizon == MaxDays * DayLen

Day(t) == t \div DayLen

\* clock.is_open, clock.next_open, clock.next_close at time t
IsOpen(t) == t % DayLen < CloseAt
NextOpen(t) == (Day(t) + 1) * DayLen
NextClose(t) == IF IsOpen(t) THEN Day(t) * DayLen + CloseAt ELSE NextOpen(t) + CloseAt

\* AccountManager.get_market_clock_data: None when the call raised APIError
GetMarketClockData(t, ok) ==
    IF ok THEN Some([current_time |-> t, is_open |-> IsOpen(t),
                     next_open |-> NextOpen(t), next_close |-> NextClose(t)])
    ELSE None

\* AccountManager.get_positions: [] when the call raised APIError
GetPositions(held, ok) == IF ok THEN held ELSE {}

\* AccountManager.close_all_positions: the error is printed, nothing closed
GatewayCloseAll(held, ok) == IF ok THEN {} ELSE held

\* fetch_historical_data: the timestamps of the n latest bars at time t,
\* oldest first (sort_values); the bars before minute 0 are those of the
\* days before
FetchHistoricalData(t, n) ==
    LET newest == (t \div BarMinutes) * BarMinutes
    IN  [k \in 1..n |-> newest - (n - k) * BarMinutes]

\* for _, row in symbol_data.iterrows(): trading_strategy.update_buffer(symbol, row)
RECURSIVE UpdateAll(_, _, _)
UpdateAll(data_buffers, symbol, rows) ==
    IF rows = <<>> THEN data_buffers
    ELSE UpdateAll(UpdateBuffer(data_buffers, symbol, Head(rows), MaxLen), symbol, Tail(rows))

\* variant: a held symbol is not noticed
HasOpenPosition_Never(symbol, open_positions) == FALSE

\* any(pos["symbol"] == symbol for pos in open_positions)
HasOpenPosition(symbol, open_positions) == symbol \in open_positions

\* variant: every signal value is traded
IsTradeSignal_Any(trade_signal) == TRUE

\* trade_signal in ["BUY", "SELL"]
IsTradeSignal(trade_signal) == trade_signal \in {"BUY", "SELL"}

\* variant: a quantity of zero is ordered
QuantityRejected_Negative(quantity) == quantity < 0

\* risk_params["quantity"] <= 0
QuantityRejected(quantity) == quantity <= 0

\* the module-level objects are built; run_day_trader is entered at
\* minute t and followed until minute until.  fetch_sizes and signals say
\* what the data source and the strategy can return during the run.
Trader(t, until, fetch_sizes, signals) ==
    [pc |-> "clock", now |-> t, until |-> until, idx |-> 1, time_until_close |-> 0,
     held |-> {}, data_buffers |-> [y \in {"AAPL", "SPY"} |-> <<>>],
     submitted |-> <<>>, skipped |-> {}, traded |-> -1, closed |-> -1,
     fetch_sizes |-> fetch_sizes, signals |-> signals, last |-> "init"]

TraderIdle ==
    /\ strategy = Unused
    /\ feed = Unused
    /\ client = Unused
    /\ LedgerIdle

\* a run entered at any minute of the first day, in which a fetch returns
\* nothing or at least as many bars as the buffer holds (5 days of 5-minute
\* bars against maxlen=300)
TraderInit ==
    /\ trader \in {Trader(t, Horizon, {0, MaxLen}, {"BUY", "SELL", "None"}) : t \in 0..(DayLen - 1)}
    /\ TraderIdle

\* a run of one day in which a fetch returns any number of bars up to
\* FetchMax and the strategy gives no signal
HistoryInit ==
    /\ trader \in {Trader(t, DayLen, 0..FetchMax, {"None"}) : t \in 0..(DayLen - 1)}
    /\ TraderIdle

AtClock == trader.pc = "clock" /\ trader.now <= trader.until

\* line 75: get_market_clock_data returned None, which cannot be unpacked;
\* the TypeError leaves run_day_trader
ClockFails ==
    /\ AtClock
    /\ GetMarketClockData(trader.now, FALSE) = None
    /\ trader' = [trader EXCEPT !.pc = "crashed", !.last = "clock"]
    /\ UNCHANGED <<ledgerVars, strategy, feed, client>>

\* lines 78-83: the market is closed; sleep until the next open
SleepUntilOpen ==
    /\ AtClock
    /\ LET clock == GetMarketClockData(trader.now, TRUE)[1]
       IN  /\ ~clock.is_open
           /\ trader' = [trader EXCEPT !.now = clock.next_open, !.submitted = <<>>,
                                       !.skipped = {}, !.last = "closed"]
    /\ UNCHANGED <<ledgerVars, strategy, feed, client>>

\* lines 86-95: within the cut-off; close all positions, sleep until the
\* next open
CloseAndSleep ==
    /\ AtClock
    /\ \E ok \in BOOLEAN :
          LET clock == GetMarketClockData(trader.now, TRUE)[1]
              time_until_close == clock.next_close - clock.current_time
          IN  /\ clock.is_open
              /\ time_until_close <= CloseCutoff
              /\ trader' = [trader EXCEPT
                              !.held = GatewayCloseAll(@, ok),
                              !.closed = Day(trader.now),
                              !.now = clock.next_open,
                              !.submitted = <<>>,
                              !.skipped = {},
                              !.last = "cutoff"]
    /\ UNCHANGED <<ledgerVars, strategy, feed, client>>

\* lines 75-100: the market is open and the close is far enough; the loop
\* over the securities begins
StartIteration ==
    /\ AtClock
    /\ LET clock == GetMarketClockData(trader.now, TRUE)[1]
           time_until_close == clock.next_close - clock.current_time
       IN  /\ clock.is_open
           /\ time_until_close > CloseCutoff
           /\ trader' = [trader EXCEPT
                           !.pc = "symbols",
                           !.idx = 1,
                           !.time_until_close = time_until_close,
                           !.traded = Day(trader.now),
                           !.submitted = <<>>,
                           !.skipped = {},
                           !.last = "start"]
    /\ UNCHANGED <<ledgerVars, strategy, feed, client>>

Order(symbol, side, qty, open_positions, accepted) ==
    [symbol |-> symbol, side |-> side, qty |-> qty,
     open_positions |-> open_positions, accepted |-> accepted]

\* lines 102-176 for one symbol.  rows: what the fetch returned; signal:
\* generate_trade_signal; account_ok, positions_ok, order_ok: whether the
\* gateway call succeeded; atr_ok: whether the sizer got past its ATR test
\* (it reads account_info only then); quantity: what it sized
TradeSymbol ==
    /\ trader.pc = "symbols" /\ trader.idx <= Len(TraderSymbols)
    /\ \E n \in trader.fetch_sizes, delay \in 0..MaxDelay, trade_signal \in trader.signals :
          LET symbol == TraderSymbols[trader.idx]
              symbol_data == FetchHistoricalData(trader.now, n)
              next == [trader EXCEPT !.idx = @ + 1, !.now = @ + delay, !.last = "symbol"]
              fed == [next EXCEPT
                        !.data_buffers = UpdateAll(@, symbol, symbol_data)]
          IN  IF symbol_data = <<>> THEN trader' = next
              ELSE IF ~IsTradeSignal(trade_signal) THEN trader' = fed
              ELSE \E positions_ok \in BOOLEAN :
                   LET open_positions == GetPositions(trader.held, positions_ok)
                   IN  IF HasOpenPosition(symbol, open_positions)
                       THEN trader' = [fed EXCEPT !.skipped = @ \cup {symbol}]
                       ELSE \E atr_ok \in BOOLEAN, account_ok \in BOOLEAN, quantity \in 0..1 :
                            IF ~atr_ok THEN trader' = fed
                            ELSE IF ~account_ok
                            THEN trader' = [fed EXCEPT !.pc = "crashed", !.last = "account"]
                            ELSE IF QuantityRejected(quantity) THEN trader' = fed
                            ELSE \E order_ok \in BOOLEAN :
                                 trader' = [fed EXCEPT
                                    !.submitted = Append(@, Order(symbol, trade_signal, quantity,
                                                                  open_positions, order_ok)),
                                    !.held = IF order_ok THEN @ \cup {symbol} ELSE @]
    /\ UNCHANGED <<ledgerVars, strategy, feed, client>>

\* lines 179-181: sleep min(time_until_close, 300) seconds, with the
\* time_until_close computed when the iteration began
Sleep ==
    /\ trader.pc = "symbols" /\ trader.idx > Len(TraderSymbols)
    /\ trader' = [trader EXCEPT
                    !.pc = "clock",
                    !.now = @ + Min(trader.time_until_close, SleepMinutes),
                    !.last = "sleep"]
    /\ UNCHANGED <<ledgerVars, strategy, feed, client>>

TraderNext ==
    \/ ClockFails
    \/ SleepUntilOpen
    \/ CloseAndSleep
    \/ StartIteration
    \/ TradeSymbol
    \/ Sleep

TraderSpec == TraderInit /\ [][TraderNext]_vars

HistorySpec == HistoryInit /\ [][TraderNext]_vars

----------------------------------------------------------------------------
(* Properties.  A step's effect is read from prev (the ledger before the   *)
(* step), the ledger variables (after it), step (the operation) and msg.   *)

\* the bar the last signal step processed
SignalBar == msg.data[idx - 1]

IsBuy(sec) == IF ledger = "naive" THEN NaiveAction(sec) = "BUY" ELSE sec.signal = "BUY"

\* shares of sym held long
LongQty(ps, sym) ==
    IF sym \notin Keys(ps) THEN 0
    ELSE IF ledger = "four" /\ Get(ps, sym).position_type = "SELL" THEN 0
    ELSE Get(ps, sym).quantity

\* the quantity a BUY at this price asks for
WantedQty(c, price) ==
    CASE ledger = "four"  -> 1
      [] ledger = "naive" -> 10
      [] OTHER            -> Min(IntDiv(c, 10 * price), IntDiv(MaxInvestment * 100, price))

\* the entries the last step appended to the trade log
NewEntries == SubSeq(trade_log, Len(prev.trade_log) + 1, Len(trade_log))

\* C1: a BUY executes only when cash >= price * quantity, it debits exactly
\* price * quantity and leaves cash >= 0; a BUY that cannot be afforded
\* changes nothing (all four ledgers and the backtest)
C1_BuyNeverOverdraws ==
    (step = "signal" /\ IsBuy(SignalBar)) =>
        LET sym    == SignalBar.symbol
            price  == SignalBar.close
            bought == LongQty(positions, sym) - LongQty(prev.positions, sym)
            wanted == WantedQty(prev.cash, price)
        IN  /\ bought > 0 => /\ prev.cash >= price * bought
                             /\ cash = prev.cash - price * bought
                             /\ cash >= 0
            /\ ( /\ wanted < 1 \/ prev.cash < price * wanted
                 /\ ledger = "four" => sym \notin Keys(prev.positions) )
                   => Current = prev

\* C1 witness: in the naive session a BUY was refused for lack of cash after
\* earlier BUYs had spent the cash down to exactly 0
C1_Witness ==
    /\ ledger = "naive" /\ step = "signal" /\ IsBuy(SignalBar)
    /\ prev.cash < SignalBar.close * 10
    /\ cash = 0
    /\ Len(positions) = 2

\* C2 (as claimed): a BUY signal for a symbol that already has an open
\* position leaves the position's quantity and average entry price, and the
\* cash, unchanged
C2_NoPyramiding ==
    (step = "signal" /\ IsBuy(SignalBar) /\ SignalBar.symbol \in Keys(prev.positions)) =>
        LET sym == SignalBar.symbol
            old == Get(prev.positions, sym)
        IN  IF ledger = "four"
            THEN \A k \in DOMAIN NewEntries : NewEntries[k].action \notin {"OPEN BUY", "OPEN SELL"}
            ELSE /\ sym \in Keys(positions)
                 /\ Get(positions, sym).quantity = old.quantity
                 /\ Get(positions, sym).avg_price = old.avg_price
                 /\ cash = prev.cash

\* C3: in the triple-factor ledger the stop_price of a position that stays
\* open never decreases, whatever the step (signal, stop check, partial
\* close, liquidation) and whatever the prices
C3_StopNeverDecreases ==
    ledger = "triple" =>
        \A sym \in Keys(prev.positions) \cap Keys(positions) :
            Get(positions, sym).stop_price >= Get(prev.positions, sym).stop_price

\* C3 witness: a position whose stop had been raised above its initial
\* 2 % stop went through a partial close and kept the raised stop
C3_Witness ==
    /\ ledger = "triple" /\ step = "partial"
    /\ \E sym \in Keys(prev.positions) \cap Keys(positions) :
        /\ Get(positions, sym).quantity < Get(prev.positions, sym).quantity
        /\ Get(positions, sym).stop_price * 100 > Get(positions, sym).avg_price * 98

\* C4: the ratchet of check_stop_loss_take_profit gives the same stop_price
\* as the high-water-mark ratchet of the specification: for every open
\* position now, and for the stop that the coming exit check will use
C4_RatchetMatchesHighWaterMark ==
    ledger = "triple" =>
        /\ Keys(positions) = Keys(ref)
        /\ \A sym \in Keys(positions) :
            /\ Get(positions, sym).stop_price = Get(ref, sym).stop_price
            /\ (pc = "stops" /\ sym \in DOMAIN Prices(msg.data)) =>
                   Ratchet(Get(positions, sym), Prices(msg.data)[sym]).stop_price
                       = RefRatchet(Get(ref, sym), Prices(msg.data)[sym]).stop_price

\* C4 witness: a stop check ran at a price above the entry price but below
\* the high-water mark, where only the code's condition fires
C4_Witness ==
    /\ ledger = "triple" /\ step = "stops"
    /\ \E sym \in Keys(positions) \cap DOMAIN Prices(msg.data) :
        /\ Prices(msg.data)[sym] > Get(positions, sym).avg_price
        /\ Prices(msg.data)[sym] < Get(ref, sym).high_water_mark

\* the place of a rule in the tick: signals, the stop-loss / take-profit
\* check (one pass over the positions, stop-loss first for each), the partial
\* close, the liquidation
Rank(tag) ==
    CASE tag = ""                -> 0
      [] tag = "StopLoss"        -> 1
      [] tag = "TakeProfit"      -> 1
      [] tag = "PartialClose"    -> 2
      [] tag = "EOD Liquidation" -> 3

\* the trade-log entries of the current tick
TickEntries == SelectSeq(trade_log, LAMBDA e : e.timestamp.time = msg.timestamp)

\* C5: the exit rules run in one order on every tick: a position whose price
\* is at or below its stop_price is closed as StopLoss, one at or above its
\* take_profit_price (and above the stop) as TakeProfit, any other stays;
\* the tick's log entries follow the order signal, StopLoss / TakeProfit,
\* PartialClose, EOD Liquidation; no symbol is fully closed twice in a tick
C5_ExitOrder ==
    ledger = "triple" =>
        /\ step = "stops" =>
            \A k \in DOMAIN prev.positions :
                LET p == prev.positions[k]
                    sym == p.symbol
                    tags == {NewEntries[j].timestamp.tag :
                                j \in {i \in DOMAIN NewEntries : NewEntries[i].symbol = sym}}
                IN  sym \in DOMAIN Prices(msg.data) =>
                        LET price == Prices(msg.data)[sym]
                        IN  /\ price <= p.stop_price =>
                                sym \notin Keys(positions) /\ tags = {"StopLoss"}
                            /\ (price > p.stop_price /\ price >= p.take_profit_price) =>
                                sym \notin Keys(positions) /\ tags = {"TakeProfit"}
                            /\ (price > p.stop_price /\ price < p.take_profit_price) =>
                                sym \in Keys(positions) /\ tags = {}
        /\ \A i, j \in DOMAIN TickEntries :
            i < j => Rank(TickEntries[i].timestamp.tag) <= Rank(TickEntries[j].timestamp.tag)
        /\ \A i, j \in DOMAIN exits : exits[i].symbol = exits[j].symbol => i = j

\* C5 witness: one stop check closed a position as StopLoss and another as
\* TakeProfit
C5_Witness ==
    /\ ledger = "triple" /\ step = "stops"
    /\ {exits[k].reason : k \in DOMAIN exits} = {"StopLoss", "TakeProfit"}

\* the entries of the last step that close shares, and those that open
Closing(e) == e.action \in {"SELL", "CLOSE BUY", "CLOSE SELL"}

\* +1 for a long position, -1 for a short one
DirOf(pos) == IF ledger = "four" /\ pos.position_type = "SELL" THEN -1 ELSE 1

AvgOf(pos) == IF ledger = "four" THEN pos.entry_price ELSE pos.avg_price

\* the cash an entry moved: proceeds of a sale or a short, cost of a buy or
\* a cover
CashFlow(e) ==
    IF e.action \in {"SELL", "CLOSE BUY", "OPEN SELL"}
    THEN e.price * e.quantity ELSE -(e.price * e.quantity)

\* C6: in the triple-factor and four-factor ledgers every full or partial
\* close of q shares at price p of a position with average entry a logs
\* exactly one entry, realizes (p - a) * q for a long and (a - p) * q for a
\* short, moves cash by p * q, and removes the position exactly when no
\* share is left
C6_CloseAccounting ==
    ledger \in {"triple", "four"} =>
        LET closes == SelectSeq(NewEntries, Closing)
        IN  /\ \A k \in DOMAIN closes :
                LET e == closes[k]
                    old == Get(prev.positions, e.symbol)
                IN  /\ e.symbol \in Keys(prev.positions)
                    /\ e.realized_pnl = DirOf(old) * (e.price - AvgOf(old)) * e.quantity
            /\ realized_pnl - prev.realized_pnl
                   = SumSeq([k \in DOMAIN closes |-> closes[k].realized_pnl])
            /\ cash - prev.cash = SumSeq([k \in DOMAIN NewEntries |-> CashFlow(NewEntries[k])])
            /\ \A k \in DOMAIN prev.positions :
                LET old == prev.positions[k]
                    mine == SelectSeq(closes, LAMBDA e : e.symbol = old.symbol)
                    sold == SumSeq([j \in DOMAIN mine |-> mine[j].quantity])
                IN  /\ Len(mine) <= 1
                    /\ old.symbol \in Keys(positions) <=> old.quantity - sold > 0
                    /\ old.symbol \in Keys(positions) =>
                           Get(positions, old.symbol).quantity = old.quantity - sold

\* C6 witness: the four-factor ledger covered a short position at a loss
C6_Witness ==
    /\ ledger = "four" /\ step = "signal"
    /\ \E k \in DOMAIN NewEntries :
        NewEntries[k].action = "CLOSE SELL" /\ NewEntries[k].realized_pnl < 0

\* C7: in the triple-factor session every valuation snapshot of a tick at or
\* after 16:00 records zero positions, and the portfolio is empty when the
\* snapshot is taken
C7_FlatAfterCutoff ==
    ledger = "triple" =>
        /\ \A k \in DOMAIN history : history[k].timestamp.hour >= 16 => history[k].positions = 0
        /\ (step = "valuation" /\ msg.timestamp.hour >= 16) => positions = <<>>

\* C7 witness: a tick at or after 16:00 bought one position, liquidated it
\* and one bought on an earlier tick, and took its snapshot
C7_Witness ==
    /\ ledger = "triple" /\ step = "valuation" /\ msg.timestamp.hour >= 16
    /\ \E k \in DOMAIN TickEntries : TickEntries[k].action = "BUY"
    /\ Len(exits) = 2
    /\ \A k \in DOMAIN exits : exits[k].reason = "EOD Liquidation"

\* C8 (as claimed): on a tick at or after 16:00 no signal opens a position
\* and every position that is closed is closed by the end-of-day rule
C8_EodPrecedence ==
    (ledger = "triple" /\ msg.timestamp.hour >= 16) =>
        /\ \A k \in DOMAIN TickEntries : TickEntries[k].action # "BUY"
        /\ \A k \in DOMAIN exits : exits[k].reason = "EOD Liquidation"

\* C9: when the liquidation runs with a single position open whose BUY is
\* the last entry of the trade log (nothing closed since), it empties the
\* portfolio, logs exactly one closing entry for it, with a realized PnL,
\* and leaves cash = cash before the BUY + that realized PnL
C9_Lifecycle ==
    ( /\ ledger = "triple" /\ step = "eod" /\ msg.timestamp.hour >= 16
      /\ Len(prev.positions) = 1
      /\ prev.trade_log # <<>> /\ Last(prev.trade_log).action = "BUY" ) =>
        LET buy == Last(prev.trade_log)
            cash_before_buy == prev.cash + buy.price * buy.quantity
        IN  /\ positions = <<>>
            /\ Len(NewEntries) = 1
            /\ NewEntries[1].action = "SELL"
            /\ NewEntries[1].symbol = buy.symbol
            /\ NewEntries[1].quantity = buy.quantity
            /\ NewEntries[1].timestamp.tag = "EOD Liquidation"
            /\ "realized_pnl" \in DOMAIN NewEntries[1]
            /\ cash = cash_before_buy + NewEntries[1].realized_pnl
            /\ realized_pnl = prev.realized_pnl + NewEntries[1].realized_pnl

\* C9 witness: the liquidation closed the single position that a BUY of an
\* earlier tick of the session had opened
C9_Witness ==
    /\ ledger = "triple" /\ step = "eod" /\ msg.timestamp.hour >= 16
    /\ Len(prev.positions) = 1
    /\ prev.trade_log # <<>> /\ Last(prev.trade_log).action = "BUY"
    /\ Last(prev.trade_log).timestamp.time # msg.timestamp
    /\ Len(trade_log) = 2

\* every close of the session's inputs
AllCloses ==
    UNION {{m.data[k].close : k \in DOMAIN m.data} : m \in Messages(ledger, NoMsg.timestamp)}

\* C10 (as claimed): the snapshot of every valuation tick has total_value =
\* cash + the sum over all open positions of direction * quantity *
\* currentPrice and unrealized PnL = the sum over all open positions of
\* direction * (currentPrice - avgEntryPrice) * quantity, where currentPrice
\* is the tick's close of the symbol and, for a symbol without a bar in the
\* tick, some known price (an earlier close or the entry price)
C10_ValuationCoversAll ==
    (step = "valuation" /\ ledger # "naive") =>
        LET snap == Last(history)
            prices == Prices(msg.data)
            absent == {k \in DOMAIN positions : positions[k].symbol \notin DOMAIN prices}
            unreal == IF ledger = "triple" THEN snap.unrealized_pnl ELSE snap.unrealized
        IN  \E f \in [absent -> AllCloses \cup {AvgOf(positions[k]) : k \in DOMAIN positions}] :
                LET cur(k) == IF k \in absent THEN f[k] ELSE prices[positions[k].symbol]
                IN  /\ snap.total_value = cash + SumSeq([k \in DOMAIN positions |->
                            DirOf(positions[k]) * positions[k].quantity * cur(k)])
                    /\ unreal = SumSeq([k \in DOMAIN positions |->
                            DirOf(positions[k]) * (cur(k) - AvgOf(positions[k]))
                                * positions[k].quantity])

\* C11: the partial-close step of a tick at 15:30 or 15:45 takes floor(q / 2)
\* shares from every position open when it runs (none from a position of one
\* share) and touches no other position, whatever signal the tick's bars
\* carried; the partial-close step of every other tick changes nothing
C11_PartialCloseOnSchedule ==
    (ledger = "triple" /\ step = "partial") =>
        IF msg.timestamp.hour = 15 /\ msg.timestamp.minute \in {30, 45}
        THEN /\ Keys(positions) = Keys(prev.positions)
             /\ \A k \in DOMAIN prev.positions :
                    LET old == prev.positions[k]
                    IN  Get(positions, old.symbol).quantity
                            = old.quantity - (old.quantity \div 2)
             /\ \A k \in DOMAIN NewEntries : NewEntries[k].timestamp.tag = "PartialClose"
        ELSE Current = prev

\* C11 witness: on a 15:45 tick whose bar carried a BUY signal, the partial
\* close halved one position and left a position of one share alone
C11_Witness ==
    /\ ledger = "triple" /\ step = "partial"
    /\ msg.timestamp = Time(15, 45)
    /\ \E k \in DOMAIN msg.data : msg.data[k].signal = "BUY"
    /\ \E k \in DOMAIN prev.positions :
        /\ prev.positions[k].quantity = 1
        /\ Get(positions, prev.positions[k].symbol).quantity = 1
    /\ \E k \in DOMAIN prev.positions :
        /\ prev.positions[k].quantity > 1
        /\ Get(positions, prev.positions[k].symbol).quantity < prev.positions[k].quantity

\* the last step handled a SELL signal (the naive client's own rule included)
SellSignal ==
    /\ step = "signal"
    /\ IF ledger = "naive" THEN NaiveAction(SignalBar) = "SELL" ELSE SignalBar.signal = "SELL"

\* C12: in the long-only ledgers every position held has quantity > 0, and
\* a SELL signal for a symbol that is not held changes neither cash,
\* positions, realized PnL nor the trade log
C12_LongOnly ==
    ledger \in {"triple", "three", "backtest", "naive"} =>
        /\ \A k \in DOMAIN positions : positions[k].quantity > 0
        /\ (SellSignal /\ SignalBar.symbol \notin Keys(prev.positions)) => Current = prev

\* C12 witness: a SELL signal arrived for a symbol that is not held while
\* another position is open
C12_Witness ==
    /\ ledger \in {"triple", "three", "backtest", "naive"}
    /\ SellSignal /\ SignalBar.symbol \notin Keys(prev.positions)
    /\ positions # <<>>

\* C13 (as claimed): every session starts with the initial cash and no
\* positions, whatever an earlier session of the same process left behind
C13_FreshSession ==
    step = "start" => (cash = InitialCash * 100 /\ positions = <<>>)

-----------------------------------------------------------------------------
(* Properties of RiskManager.calculate_trade_parameters, under RiskSpec *)

\* the arguments of the call and, once it has run, what came of it
Req == risk.request[1]
Out == risk.outcome[1]
Called == risk.outcome # None
Returned == Called /\ "quantity" \in DOMAIN Out
Raised == Called /\ "error" \in DOMAIN Out

\* the call gets past the ATR check with a valid side
Sizable == Req.atr # None /\ Req.atr[1] >= 1 /\ Req.side \in {"BUY", "SELL"}

\* stopPrice, riskPerShare and targetPrice as the specification gives them
SpecStop ==
    IF Req.side = "BUY"
    THEN Max(Req.entry_price - Req.atr[1] * Req.atr_multiplier, StopFloor)
    ELSE Req.entry_price + Req.atr[1] * Req.atr_multiplier

SpecRisk == IF Req.side = "BUY" THEN Req.entry_price - SpecStop ELSE SpecStop - Req.entry_price

SpecTarget ==
    IF Req.side = "BUY" THEN Req.entry_price + RiskRewardRatio * SpecRisk
    ELSE Req.entry_price - RiskRewardRatio * SpecRisk

\* riskBasedQty, notionalCapQty and, for a BUY, cashCapQty: floored, minimum 0
SpecCandidates ==
    LET funds == IF Req.side = "BUY" THEN Req.account_info.cash
                 ELSE Req.account_info.buying_power
    IN  {Max(0, FloorDiv(Req.account_info.equity * RiskPerTradePct, 100 * SpecRisk)),
         Max(0, FloorDiv(funds * MaxPositionFractionPct, 100 * Req.entry_price))}
        \cup (IF Req.side = "BUY"
              THEN {Max(0, FloorDiv(Req.account_info.cash, Req.entry_price))} ELSE {})

\* C14 (as claimed): the quantity returned is never negative and is at most
\* each of riskBasedQty, notionalCapQty and cashCapQty
C14_QuantityWithinCandidates ==
    Returned =>
        /\ Out.quantity >= 0
        /\ (Sizable /\ SpecRisk # 0) => \A c \in SpecCandidates : Out.quantity <= c

\* C15 (as claimed): the quantity of an admitted trade is the minimum of the
\* applicable candidates: risk-based and notional cap, and for a BUY only
\* the cash cap
C15_QuantityIsMinimum ==
    (Returned /\ Out.quantity > 0) =>
        /\ Out.quantity \in SpecCandidates
        /\ \A c \in SpecCandidates : Out.quantity <= c

\* the result carries a stop and a target
Priced == Returned /\ "stop_loss" \in DOMAIN Out /\ Out.stop_loss # None

\* C16 (as claimed): the stop and the target returned are exactly
\* max(entry - atr * m, floor) / entry + atr * m and entry +/- ratio *
\* riskPerShare, and the stop is always on the losing side and the target
\* on the winning side of the entry
C16_StopAndTargetExact ==
    Priced =>
        /\ Out.stop_loss = Some(SpecStop)
        /\ Out.take_profit = Some(SpecTarget)
        /\ IF Req.side = "BUY"
           THEN Out.stop_loss[1] < Req.entry_price /\ Req.entry_price < Out.take_profit[1]
           ELSE Out.take_profit[1] < Req.entry_price /\ Req.entry_price < Out.stop_loss[1]

\* C16 (amended): the stop and the target returned are those values rounded
\* to the cent, riskPerShare being taken from the unrounded stop; and
\* whenever riskPerShare > 0 the unrounded stop is strictly on the losing
\* side and the unrounded target strictly on the winning side of the entry,
\* and rounding never moves either to the wrong side
C16_StopAndTargetRounded ==
    Priced =>
        /\ Out.stop_loss = Some(Round2(SpecStop))
        /\ Out.take_profit = Some(Round2(SpecTarget))
        /\ SpecRisk > 0 =>
            IF Req.side = "BUY"
            THEN /\ SpecStop < Req.entry_price /\ Req.entry_price < SpecTarget
                 /\ Req.entry_price % 10 = 0 =>
                        (Out.stop_loss[1] <= Req.entry_price
                            /\ Req.entry_price <= Out.take_profit[1])
            ELSE /\ SpecTarget < Req.entry_price /\ Req.entry_price < SpecStop
                 /\ Req.entry_price % 10 = 0 =>
                        (Out.take_profit[1] <= Req.entry_price
                            /\ Req.entry_price <= Out.stop_loss[1])

\* C16 witness: a BUY at 100.00 with an ATR of 1.234 returned the stop 98.766
\* rounded to 98.77 and the target 102.468 rounded to 102.47
C16_Witness ==
    /\ Priced /\ Req.side = "BUY" /\ Req.entry_price = 100000
    /\ Req.atr = Some(1234) /\ Req.atr_multiplier = 1
    /\ Out.quantity > 0
    /\ Out.stop_loss = Some(98770) /\ Out.take_profit = Some(102470)

\* C17 (as claimed): with maxOpenPositions positions open the call returns
\* quantity 0, whatever its other arguments
C17_PositionLimit ==
    (Called /\ Len(Req.open_positions) >= MaxOpenPositions) =>
        (Returned /\ Out.quantity = 0)

\* the notional of the open positions plus that of n more shares is above
\* maxNotionalRatio * buyingPower (the ratio is 1 / (100 / pct))
OverNotional(n) ==
    (SumSeq(Req.open_positions) + n * Req.entry_price) * (100 \div MaxNotionalRatioPct)
        > Req.account_info.buying_power

\* C18: a sized trade whose notional, added to the market value of the open
\* positions, exceeds maxNotionalRatio * buyingPower is rejected with
\* quantity 0; so every result that carries a quantity other than 0 keeps
\* existing notional + quantity * entryPrice within that limit
C18_NotionalLimit ==
    (Returned /\ Sizable) =>
        LET c == Candidates(Req.side, Req.entry_price, Req.account_info, SpecRisk)
            final_quantity == Min(c.risk_based, Min(c.notional_cap, c.cash_cap))
        IN  /\ OverNotional(final_quantity) => (Out.quantity = 0 /\ Out.stop_loss = None)
            /\ Out.quantity # 0 => ~OverNotional(Out.quantity)

\* C18 witness: a BUY of 10 shares at 100.00 beside one position of 99500.00
\* was rejected, the limit being 100000.00
C18_Witness ==
    /\ Returned /\ Sizable /\ Req.side = "BUY"
    /\ Req.entry_price = 100000 /\ Req.atr = Some(2000) /\ Req.atr_multiplier = 1
    /\ Req.account_info = [equity |-> 100000000, cash |-> 100000000, buying_power |-> 200000000]
    /\ Req.open_positions = <<99500000>>
    /\ Out.quantity = 0 /\ Out.stop_loss = None

\* C19 (as claimed): a call whose riskPerShare is at most epsilon (here: at
\* most 0, epsilon being below one mill) returns quantity 0
C19_TinyRiskRejected ==
    (Called /\ Sizable /\ SpecRisk <= 0) => (Returned /\ Out.quantity = 0)

\* C20 (as claimed): a call with a valid side never raises, and a result of
\* quantity 0 carries stop_loss = None and take_profit = None
C20_RejectionShape ==
    (Called /\ Req.side \in {"BUY", "SELL"}) =>
        /\ Returned
        /\ Out.quantity = 0 =>
            /\ {"stop_loss", "take_profit"} \subseteq DOMAIN Out
            /\ Out.stop_loss = None /\ Out.take_profit = None

----------------------------------------------------------------------------
(* Properties of the indicator engine (StrategySpec) *)

\* the most recent n items of a sequence, in order
Newest(xs, n) == IF Len(xs) <= n THEN xs ELSE SubSeq(xs, Len(xs) - n + 1, Len(xs))

\* C21: no history is ever longer than the capacity; an update leaves the
\* symbol's history equal to the most recent C bars of the old history
\* followed by the new bar, in insertion order, and leaves every other
\* symbol's history as it was; a signal evaluation changes no history
C21_BoundedFifoHistory ==
    LET C == MaxLenOf(strategy.variant)
        s == strategy.call.symbol
    IN  /\ \A sym \in StratSymbols : Len(strategy.data_buffers[sym]) <= C
        /\ strategy.call.op = "update" =>
              /\ strategy.data_buffers[s]
                    = Newest(Append(strategy.before[s], strategy.call.data_point[1]), C)
              /\ \A o \in StratSymbols \ {s} :
                    strategy.data_buffers[o] = strategy.before[o]
        /\ strategy.call.op \in {"generate", "indicators"} =>
              strategy.data_buffers = strategy.before

\* an update of a full history whose oldest bar differs from the new one
\* evicted that bar, while the other symbol holds bars of its own
C21_Witness ==
    /\ strategy.variant = "alpaca"
    /\ strategy.call.op = "update"
    /\ strategy.call.symbol = "AAPL"
    /\ Len(strategy.before["AAPL"]) = MaxLen
    /\ Head(strategy.before["AAPL"]) # strategy.call.data_point[1]
    /\ Head(strategy.before["AAPL"]) # strategy.before["AAPL"][2]
    /\ strategy.data_buffers["MSFT"] # <<>>

\* C22: generate_trade_signal on a history shorter than the warm-up
\* threshold returns no signal (a returned value: the call has a result),
\* whatever the indicators would say about the bars
C22_NoSignalBeforeWarmUp ==
    (/\ strategy.variant = "alpaca"
     /\ strategy.call.op = "generate"
     /\ Len(strategy.data_buffers[strategy.call.symbol]) < WarmUp)
        => strategy.call.result.signal = "None"

\* the call ran one bar short of the threshold on bars whose indicators
\* agree on a signal
C22_Witness ==
    /\ strategy.variant = "alpaca"
    /\ strategy.call.op = "generate"
    /\ Len(strategy.data_buffers[strategy.call.symbol]) = WarmUp - 1
    /\ Consensus(CalculateIndicators(strategy.data_buffers[strategy.call.symbol])) = "BUY"
    /\ strategy.call.result.signal = "None"

\* a signal evaluation that got as far as the vote
Voted == strategy.call.op = "generate" /\ strategy.call.result.votes # <<>>

\* the threshold rule of the specification
FollowsThreshold(votes, signal, T) ==
    /\ signal = "BUY" <=> Count(votes, 1) >= T
    /\ signal = "SELL" <=> Count(votes, -1) >= T
    /\ signal \in {"BUY", "SELL", "None"}
    /\ ~(Count(votes, 1) >= T /\ Count(votes, -1) >= T)

Sign(x) == IF x > 0 THEN 1 ELSE IF x < 0 THEN -1 ELSE 0

\* the sign of a / b - c / d for fractions with positive denominators
SignOfDifference(a, c) == Sign(a.num * c.den - c.num * a.den)

\* the rows the last call computed its indicators from
Frame == strategy.data_buffers[strategy.call.symbol]

\* C24 (as claimed): the trend vote is the sign of close - long EMA and the
\* crossover vote the sign of short EMA - mid EMA, 0 when the two are equal
\* or the longer average is not defined yet
C24_VotesAreSigns ==
    (/\ strategy.variant = "alpaca"
     /\ strategy.call.op \in {"generate", "indicators"}
     /\ strategy.call.result.votes # <<>>) =>
        LET close == Column(Frame, "close")
            long == Ewm(close, LongSpan, LongSpan)
            short == Ewm(close, ShortSpan, ShortSpan)
            mid == Ewm(close, MidSpan, MidSpan)
        IN  /\ strategy.call.result.votes[1]
                 = IF long = None THEN 0
                   ELSE SignOfDifference([num |-> Last(close), den |-> 1], long[1])
            /\ strategy.call.result.votes[4]
                 = IF mid = None THEN 0 ELSE SignOfDifference(short[1], mid[1])

----------------------------------------------------------------------------
(* Properties of the bar feed (FeedSpec, FeedLiveSpec, FeedSlowSpec) *)

Connected == {c \in ConnIds : feed.conns[c].state # "none"}

\* C25 (as claimed): accepting a connection runs no read of the data files,
\* and the timeline a connection replays is never modified
C25_TimelineBuiltOnce ==
    /\ feed.last.op = "accept" => feed.reads = feed.before.reads
    /\ \A c \in ConnIds :
          feed.before.conns[c].state # "none" =>
              feed.conns[c].buffer = feed.before.conns[c].buffer

RECURSIVE Concat(_)
Concat(seqs) == IF seqs = <<>> THEN <<>> ELSE Head(seqs) \o Concat(Tail(seqs))

AllRows == Concat(feed.files)

\* the rows of a timestamp, all files in the order given
RowsAt(t) == SelectSeq(AllRows, LAMBDA r : r.timestamp = t)

\* C26 (as claimed): the groups of a timeline are in non-decreasing
\* timestamp order, every timestamp of the files has exactly one group, and
\* the group holds the rows of that timestamp from all files
C26_TimelineOrdered ==
    \A c \in Connected :
        LET tl == feed.conns[c].buffer
        IN  /\ \A i, j \in DOMAIN tl : i < j => tl[i].timestamp <= tl[j].timestamp
            /\ \A i, j \in DOMAIN tl : tl[i].timestamp = tl[j].timestamp => i = j
            /\ {tl[k].timestamp : k \in DOMAIN tl}
                  = {AllRows[k].timestamp : k \in DOMAIN AllRows}
            /\ \A k \in DOMAIN tl : tl[k].data = RowsAt(tl[k].timestamp)

\* the bytes of the first n groups of a timeline, one message each
WireOf(tl, n) == Concat([k \in 1..n |-> Encode(tl[k])])

\* what a connection has sent is the messages of the groups before next, in
\* timeline order from the first, each once and newline-terminated, and
\* after a failed send at most an unfinished piece of the message that
\* failed; a connection closed without a failure has sent every group
Delivered(conn) ==
    /\ conn.next \in 1..(Len(conn.buffer) + 1)
    /\ \E part \in 0..2 :
          /\ part > 0 => conn.failed
          /\ conn.wire = WireOf(conn.buffer, conn.next - 1)
                           \o (IF part = 0 THEN <<>>
                               ELSE SubSeq(Encode(conn.buffer[conn.next]), 1, part))
    /\ conn.failed => conn.state = "closed"
    /\ (conn.state = "closed" /\ ~conn.failed) => conn.next = Len(conn.buffer) + 1

\* C27: every consumer is sent the groups of its timeline once each, in
\* order from the first, as newline-terminated messages; a closed
\* connection (after the last group or after a failed send) is sent nothing
\* more; and every connection is closed in the end
C27_Delivery ==
    /\ [](\A c \in ConnIds : Delivered(feed.conns[c]))
    /\ [][\A c \in ConnIds : feed.conns[c].state = "closed" => feed'.conns[c] = feed.conns[c]]_vars
    /\ \A c \in ConnIds :
          (feed.conns[c].state = "streaming") ~> (feed.conns[c].state = "closed")

\* one consumer got all three groups of its timeline and was closed, an
\* other one was cut off in the middle of its second message
C27_Witness ==
    \E c, d \in ConnIds :
        /\ feed.conns[c].state = "closed" /\ ~feed.conns[c].failed
        /\ Len(feed.conns[c].buffer) = 3
        /\ Len(feed.conns[c].wire) = 9
        /\ feed.conns[d].failed /\ Len(feed.conns[d].wire) = 4

\* C28: a step of one connection (a send, a failed send, a close) leaves
\* every other connection and the data files as they were, and although
\* consumer 1 may be held up for ever every other consumer is served to the
\* end: its connection is closed, with all groups sent unless its own send
\* failed
C28_Isolation ==
    /\ [](\A d \in ConnIds \ {feed.last.conn} : feed.conns[d] = feed.before.conns[d])
    /\ [][feed'.files = feed.files]_vars
    /\ [](\A d \in ConnIds : Delivered(feed.conns[d]) /\ feed.conns[d].buffer \in {<<>>, SendCSVfile(feed.files)})
    /\ \A d \in ConnIds \ {1} :
          (feed.conns[d].state = "streaming") ~> (feed.conns[d].state = "closed")

\* consumer 1 lost its connection on its first message; consumer 2 has
\* been sent all three groups and its worker has just closed it
C28_Witness ==
    /\ feed.conns[1].failed /\ feed.conns[1].next = 1
    /\ feed.last = [op |-> "finish", conn |-> 2]
    /\ ~feed.conns[2].failed
    /\ Len(feed.conns[2].wire) = 3 * Len(feed.conns[2].buffer)
    /\ Len(feed.conns[2].buffer) = 3

----------------------------------------------------------------------------
(* Properties of the consumers' receive loops (ClientSpec) *)

WellFormed(m) ==
    /\ m.form = "object" /\ m.timestamp # None /\ m.data # None
    /\ \A k \in DOMAIN m.data[1] : m.data[1][k].close = "number"

\* the peer is the bar feed: every message is a group it could have sent
FromFeed == \A k \in DOMAIN client.sent : WellFormed(client.sent[k])

\* the messages the client parsed and went on to handle, in order
Parsed == [k \in DOMAIN client.handled |-> client.handled[k].message]

IsPrefix(p, q) == Len(p) <= Len(q) /\ p = SubSeq(q, 1, Len(p))

\* C29 (as claimed): however recv cuts the bytes of the bar feed, the client
\* takes nothing for malformed and parses the messages sent, each once and
\* in order - all of them once the last byte has been read
C29_Reassembly ==
    FromFeed =>
        /\ client.skipped = 0
        /\ IsPrefix(Parsed, client.sent)
        /\ Unread = 0 => Parsed = client.sent

\* C30 (as claimed): no input ends the session; of a message that has its
\* 'timestamp' and 'data' every bar that can be read is processed, the
\* others are passed over
C30_MalformedNotFatal ==
    /\ client.state # "aborted"
    /\ \A k \in DOMAIN client.handled :
          LET h == client.handled[k]
          IN  /\ h.result # "raised"
              /\ h.result = "done" =>
                    h.processed = SymbolsOf(SelectSeq(h.message.data[1],
                                                      LAMBDA b : b.close = "number"))

\* C31: once a consumer session has ended (end of stream, or an error), a
\* valuation snapshot has been written after the last message the client
\* handled: the final state of the session is in the report
C31_FinalSnapshot ==
    client.state # "running" =>
        /\ client.snapshots # <<>>
        /\ Last(client.snapshots) = Len(client.handled)


----------------------------------------------------------------------------
(* Further properties of the ledgers (Spec) *)

\* what the open positions cost: sum of quantity * avg_price
PositionCost(ps) == SumSeq([k \in DOMAIN ps |-> ps[k].quantity * ps[k].avg_price])

\* C35: in the triple-factor ledger cash plus the cost of the open positions
\* is the initial cash plus the realized PnL, and every valuation snapshot
\* has total_value = initial cash + realized_pnl + unrealized_pnl
C35_AccountingIdentity ==
    ledger = "triple" =>
        /\ cash + PositionCost(positions) = InitialCash * 100 + realized_pnl
        /\ \A k \in DOMAIN history :
              history[k].total_value
                  = InitialCash * 100 + history[k].realized_pnl + history[k].unrealized_pnl

\* C35 witness: a snapshot with an unrealized gain or loss was taken after
\* a sale realized one, and a position is open
C35_Witness ==
    /\ ledger = "triple" /\ step = "valuation"
    /\ positions # <<>>
    /\ realized_pnl # 0
    /\ Last(history).unrealized_pnl # 0

\* C36: in the triple-factor ledger every position held has
\* stop_price < take_profit_price, and in the exit check no position, after
\* its trailing-stop update, has the tick's price both at or below its stop
\* and at or above its target
C36_ExitsExclusive ==
    ledger = "triple" =>
        /\ \A k \in DOMAIN positions : positions[k].stop_price < positions[k].take_profit_price
        /\ step = "stops" =>
              LET prices == Prices(msg.data)
                  ps == Ratcheted(prev.positions, prices)
              IN  \A k \in DOMAIN ps :
                      ps[k].symbol \in DOMAIN prices =>
                          ~(/\ prices[ps[k].symbol] <= ps[k].stop_price
                            /\ prices[ps[k].symbol] >= ps[k].take_profit_price)

\* C36 witness: the exit check raised the stop of a position above its
\* average price and kept the position
C36_Witness ==
    /\ ledger = "triple" /\ step = "stops"
    /\ \E k \in DOMAIN positions :
          /\ positions[k].stop_price > positions[k].avg_price
          /\ positions[k].symbol \in Keys(prev.positions)
          /\ Get(prev.positions, positions[k].symbol).stop_price < positions[k].stop_price

C38_SellSignalSells ==
    (/\ ledger \in {"triple", "three", "backtest"}
     /\ SellSignal
     /\ SignalBar.symbol \in Keys(prev.positions)) =>
        LongQty(positions, SignalBar.symbol) < LongQty(prev.positions, SignalBar.symbol)

----------------------------------------------------------------------------
(* A further property of the bar feed (FeedSpec) *)

\* the places <<group, index>> of a timeline that hold the row r
PlacesOf(tl, r) ==
    {p \in (DOMAIN tl) \X (1..Len(AllRows)) :
        p[2] \in DOMAIN tl[p[1]].data /\ tl[p[1]].data[p[2]] = r}

\* C39: every data row of every file is in the timeline of a connection
\* exactly once, in the group of its own timestamp
C39_EveryRowOnce ==
    \A c \in Connected :
        LET tl == feed.conns[c].buffer
        IN  \A i \in DOMAIN AllRows :
                /\ Cardinality(PlacesOf(tl, AllRows[i])) = 1
                /\ \A p \in PlacesOf(tl, AllRows[i]) :
                       tl[p[1]].timestamp = AllRows[i].timestamp

----------------------------------------------------------------------------
(* Properties of run_day_trader (TraderSpec) *)

\* C32: a failing gateway call never ends run_day_trader
C32_GatewayFailureNotFatal == trader.pc # "crashed"

\* C33: on a day on which an iteration found the market open,
\* close_all_positions has been called by the time the trader finds the
\* market closed; and an order is only submitted in an iteration that began
\* with the market open and outside the close cut-off
C33_FlatAtClose ==
    /\ trader.pc = "clock" /\ ~IsOpen(trader.now) /\ trader.traded = Day(trader.now)
          => trader.closed = Day(trader.now)
    /\ trader.submitted # <<>> => trader.time_until_close > CloseCutoff

\* C34: every order of the current iteration was submitted for a BUY or
\* SELL signal, for a symbol without a position in the snapshot fetched for
\* it, with a quantity above 0, and no symbol has two orders
C34_OrderGuards ==
    /\ \A k \in DOMAIN trader.submitted :
          LET o == trader.submitted[k]
          IN  /\ o.side \in {"BUY", "SELL"}
              /\ o.symbol \notin o.open_positions
              /\ o.qty > 0
    /\ \A j, k \in DOMAIN trader.submitted :
          trader.submitted[j].symbol = trader.submitted[k].symbol => j = k

\* an iteration that submitted an order for one symbol and skipped the
\* other, which had an open position
C34_Witness ==
    /\ Len(trader.submitted) = 1
    /\ trader.skipped # {}
    /\ trader.submitted[1].symbol \notin trader.skipped
    /\ trader.submitted[1].open_positions # {}

\* C40: the history of every symbol holds its bars in increasing timestamp
\* order, each at most once
C40_HistoryOrdered ==
    \A y \in DOMAIN trader.data_buffers :
        \A j, k \in DOMAIN trader.data_buffers[y] :
            j < k => trader.data_buffers[y][j] < trader.data_buffers[y][k]


====
